---- MODULE Spec2Model ----
(***************************************************************************)
(* Linked-group synchronisation of TrenchBroom's GroupNode.                *)
(*                                                                         *)
(* The node tree is a heap: `nodes` is the sequence of all node objects    *)
(* that exist (a node's identity is its index), `records` is the sequence  *)
(* of all GroupNode::SharedData objects.  Space is one-dimensional: a      *)
(* transformation is the affine map x |-> a*x + b with a in {-1, 0, 1}, a  *)
(* bounding box is an interval.  Property keys are character sequences.    *)
(***************************************************************************)
EXTENDS Integers, Sequences, FiniteSets, TLC

VARIABLES nodes, records, updateCall, updateResult, linkCall, failedAssertion

vars == <<nodes, records, updateCall, updateResult, linkCall, failedAssertion>>

(***************************************************************************)
(* Bounds of the model.                                                    *)
(***************************************************************************)
MaxCoord == 1
MaxProps == 2
MaxLinkCalls == 3
MaxGroupNodes == 3
MaxEditCalls == 4
MaxSplices == 1

(***************************************************************************)
(* Helpers on sequences.                                                   *)
(***************************************************************************)
Range(s) == {s[i] : i \in 1..Len(s)}

(***************************************************************************)
(* vm::mat4x4, restricted to the maps x |-> a*x + b.                       *)
(***************************************************************************)
Mat(a, b) == [a |-> a, b |-> b]

IdentityMat == Mat(1, 0)

\* lhs * rhs: the map that applies rhs first, then lhs
MatMul(lhs, rhs) == Mat(lhs.a * rhs.a, lhs.a * rhs.b + lhs.b)

MatApply(m, x) == m.a * x + m.b

\* vm::invert: (success, inverse); the inverse of a = +-1 is a itself
invert(m) ==
    IF m.a = 0 THEN <<FALSE, IdentityMat>>
    ELSE <<TRUE, Mat(m.a, 0 - (m.a * m.b))>>

(***************************************************************************)
(* vm::bbox3, restricted to intervals.                                     *)
(***************************************************************************)
BBox(lo, hi) == [min |-> lo, max |-> hi]

BBoxContains(outer, inner) == outer.min <= inner.min /\ inner.max <= outer.max

BBoxMerge(x, y) ==
    BBox(IF x.min <= y.min THEN x.min ELSE y.min,
         IF x.max >= y.max THEN x.max ELSE y.max)

\* the extent of a point entity around its origin (bbox3(8.0))
DefaultBoundsHalf == 8

(***************************************************************************)
(* Property keys and entity properties.                                    *)
(***************************************************************************)
Digits == {"0", "1", "2", "3", "4", "5", "6", "7", "8", "9"}

CharCode(c) ==
    CASE c = "1" -> 49
      [] c = "2" -> 50
      [] c = "j" -> 106
      [] c = "k" -> 107
      [] OTHER -> 0

IsPrefix(p, s) == Len(p) <= Len(s) /\ SubSeq(s, 1, Len(p)) = p

\* std::string operator<
RECURSIVE StrLess(_, _)
StrLess(x, y) ==
    IF y = <<>> THEN FALSE
    ELSE IF x = <<>> THEN TRUE
    ELSE IF CharCode(Head(x)) # CharCode(Head(y)) THEN CharCode(Head(x)) < CharCode(Head(y))
    ELSE StrLess(Tail(x), Tail(y))

\* a key is a numbered variant of prefix: prefix followed by one or more digits
isNumberedProperty(prefix, key) ==
    /\ Len(key) > Len(prefix)
    /\ IsPrefix(prefix, key)
    /\ \A i \in (Len(prefix) + 1)..Len(key) : key[i] \in Digits

EntityProperty(key, value) == [key |-> key, value |-> value]

NoValue == "<none>"

\* Entity::property: the value of key, or null
property(properties, key) ==
    IF \E i \in 1..Len(properties) : properties[i].key = key
    THEN properties[CHOOSE i \in 1..Len(properties) : properties[i].key = key].value
    ELSE NoValue

hasProperty(properties, key) == \E i \in 1..Len(properties) : properties[i].key = key

\* Entity::removeProperty
removeProperty(properties, key) ==
    LET Keep(p) == p.key # key IN SelectSeq(properties, Keep)

\* Entity::addOrUpdateProperty
addOrUpdateProperty(properties, key, value) ==
    IF hasProperty(properties, key)
    THEN [properties EXCEPT
             ![CHOOSE i \in 1..Len(properties) : properties[i].key = key].value = value]
    ELSE Append(properties, EntityProperty(key, value))

\* Entity::numberedProperties
numberedProperties(properties, prefix) ==
    LET Keep(p) == isNumberedProperty(prefix, p.key) IN SelectSeq(properties, Keep)

\* Entity::removeNumberedProperty
removeNumberedProperty(properties, prefix) ==
    LET Keep(p) == ~isNumberedProperty(prefix, p.key) IN SelectSeq(properties, Keep)

RECURSIVE addOrUpdateAll(_, _)
addOrUpdateAll(properties, toAdd) ==
    IF toAdd = <<>> THEN properties
    ELSE addOrUpdateAll(addOrUpdateProperty(properties, Head(toAdd).key, Head(toAdd).value),
                        Tail(toAdd))

\* kdl::vec_sort_and_remove_duplicates on a vector of strings
RECURSIVE vec_sort_and_remove_duplicates(_)
vec_sort_and_remove_duplicates(v) ==
    IF v = <<>> THEN <<>>
    ELSE LET least == CHOOSE x \in Range(v) : \A y \in Range(v) : y = x \/ StrLess(x, y)
             Keep(x) == x # least
         IN <<least>> \o vec_sort_and_remove_duplicates(SelectSeq(v, Keep))

Entity(origin, properties, preservedProperties) ==
    [origin |-> origin, properties |-> properties, preservedProperties |-> preservedProperties]

\* Entity::transform: the placement follows the transformation
EntityTransform(entity, transformation) ==
    [entity EXCEPT !.origin = MatApply(transformation, entity.origin)]

Group(name, transformation) == [name |-> name, transformation |-> transformation]

\* Group::transform: new = transformation * old
GroupTransform(group, transformation) ==
    [group EXCEPT !.transformation = MatMul(transformation, group.transformation)]

Brush(lo, hi) == [lo |-> lo, hi |-> hi]

BrushErrorMessage == "Brush is empty"

\* Brush::transform(worldBounds, transformation, lockTextures): fails when
\* the transformed solid is degenerate
BrushTransform(brush, worldBounds, transformation) ==
    IF transformation.a = 0
    THEN [ok |-> FALSE, brush |-> brush]
    ELSE LET p == MatApply(transformation, brush.lo)
             q == MatApply(transformation, brush.hi)
         IN [ok |-> TRUE, brush |-> Brush(IF p <= q THEN p ELSE q, IF p <= q THEN q ELSE p)]

(***************************************************************************)
(* The heap of nodes and shared records.  A heap value h has the fields    *)
(* nodes and records (the objects), and four logs kept for the analysis,   *)
(* each in order: cloned (the members the cloner was started for), visited *)
(* (the pairs <<member, source node>> the cloner dispatched on), checked   *)
(* (the pairs <<member, source node>> for whose copy the bounds check ran) *)
(* and preserved (the pairs <<member, corresponding nodes>> the property   *)
(* preserver was run for).                                                 *)
(***************************************************************************)
NoId == 0

NoGroup == Group("", IdentityMat)
NoEntity == Entity(0, <<>>, <<>>)
NoBrush == Brush(0, 0)

NodeObject(kind, group, sharedData, entity, brush) ==
    [kind |-> kind, parent |-> NoId, children |-> <<>>,
     group |-> group, sharedData |-> sharedData, editState |-> "Closed",
     persistentId |-> NoId, entity |-> entity, brush |-> brush]

\* struct GroupNode::SharedData, as constructed by std::make_shared
SharedData == [linkedGroups |-> <<>>, persistentId |-> NoId]

\* mutant: no record is made for the new node when one exists already
NewGroupNode_sharesLastRecord(h, group) ==
    IF h.records = <<>>
    THEN [h EXCEPT !.nodes = Append(@, NodeObject("Group", group, 1, NoEntity, NoBrush)),
                   !.records = Append(@, SharedData)]
    ELSE [h EXCEPT !.nodes = Append(@, NodeObject("Group", group, Len(h.records), NoEntity, NoBrush))]

\* GroupNode::GroupNode(Group): the new node is the last one of the heap
NewGroupNode(h, group) ==
    [h EXCEPT !.nodes = Append(@, NodeObject("Group", group, Len(h.records) + 1, NoEntity, NoBrush)),
              !.records = Append(@, SharedData)]

NewEntityNode(h, entity) ==
    [h EXCEPT !.nodes = Append(@, NodeObject("Entity", NoGroup, NoId, entity, NoBrush))]

NewBrushNode(h, brush) ==
    [h EXCEPT !.nodes = Append(@, NodeObject("Brush", NoGroup, NoId, NoEntity, brush))]

NewContainerNode(h, kind) ==
    [h EXCEPT !.nodes = Append(@, NodeObject(kind, NoGroup, NoId, NoEntity, NoBrush))]

RECURSIVE SetParent(_, _, _)
\* each of children gets parent as its parent
SetParent(nodeObjects, children, parent) ==
    IF children = <<>> THEN nodeObjects
    ELSE SetParent([nodeObjects EXCEPT ![Head(children)].parent = parent], Tail(children), parent)

\* Node::addChildren
addChildren(h, parent, children) ==
    [h EXCEPT !.nodes = SetParent([@ EXCEPT ![parent].children = @ \o children],
                                  children, parent)]

\* mutant: the members of every link set are returned
linkedGroups_ofEveryRecord(h, this) ==
    LET upTo[r \in 0..Len(h.records)] ==
            IF r = 0 THEN <<>> ELSE upTo[r - 1] \o h.records[r].linkedGroups
    IN upTo[Len(h.records)]

\* GroupNode::linkedGroups
linkedGroups(h, this) == h.records[h.nodes[this].sharedData].linkedGroups

\* GroupNode::inLinkSetWith
inLinkSetWith(h, this, groupNode) == h.nodes[groupNode].sharedData = h.nodes[this].sharedData

\* mutant: the record is copied by value into groupNode's record
addToLinkSet_copiesRecord(h, this, groupNode) ==
    [h EXCEPT !.records[h.nodes[groupNode].sharedData] = h.records[h.nodes[this].sharedData]]

\* mutant: groupNode is also erased from the member list it was in
addToLinkSet_erasesFromPrevious(h, this, groupNode) ==
    [h EXCEPT !.records[h.nodes[groupNode].sharedData].linkedGroups =
                  SelectSeq(@, LAMBDA g : g # groupNode),
              !.nodes[groupNode].sharedData = h.nodes[this].sharedData]

\* GroupNode::addToLinkSet
addToLinkSet(h, this, groupNode) ==
    [h EXCEPT !.nodes[groupNode].sharedData = h.nodes[this].sharedData]

\* GroupNode::linked
linked(h, this) == this \in Range(linkedGroups(h, this))

\* mutant: link() asserts nothing
linkAssertion_none(h, this) == TRUE

\* assert(!linked()) of GroupNode::link
linkAssertion(h, this) == ~linked(h, this)

\* mutant: this is put at the front of the member list
link_atFront(h, this) ==
    [h EXCEPT !.records[h.nodes[this].sharedData].linkedGroups = <<this>> \o @]

\* GroupNode::link
link(h, this) ==
    [h EXCEPT !.records[h.nodes[this].sharedData].linkedGroups = Append(@, this)]

\* assert(linked()) of GroupNode::unlink
unlinkAssertion(h, this) == linked(h, this)

\* mutant: every member is erased
unlink_allMembers(h, this) ==
    [h EXCEPT !.records[h.nodes[this].sharedData].linkedGroups = <<>>]

\* mutant: the last member is erased
unlink_lastMember(h, this) ==
    [h EXCEPT !.records[h.nodes[this].sharedData].linkedGroups = SubSeq(@, 1, Len(@) - 1)]

\* GroupNode::unlink
unlink(h, this) ==
    [h EXCEPT !.records[h.nodes[this].sharedData].linkedGroups =
        SelectSeq(@, LAMBDA g : g # this)]

\* GroupNode::persistentId
persistentId(h, this) == h.nodes[this].persistentId

\* GroupNode::sharedPersistentId
sharedPersistentId(h, this) == h.records[h.nodes[this].sharedData].persistentId

\* mutant: the identity of the record is assigned whether or not it is set
setPersistentId_overwrites(h, this, id) ==
    [h EXCEPT !.nodes[this].persistentId = id,
              !.records[h.nodes[this].sharedData].persistentId = id]

\* GroupNode::setPersistentId
setPersistentId(h, this, id) ==
    LET own == [h EXCEPT !.nodes[this].persistentId = id]
    IN IF sharedPersistentId(h, this) = NoId
       THEN [own EXCEPT !.records[h.nodes[this].sharedData].persistentId = id]
       ELSE own

\* mutant: the clone references the record of the node it was cloned from
doClone_sharesRecord(h, this) ==
    [h EXCEPT !.nodes = Append(@, NodeObject("Group", h.nodes[this].group,
                                             h.nodes[this].sharedData, NoEntity, NoBrush))]

\* GroupNode::doClone: a new group node holding a copy of the Group value
doClone(h, this) == NewGroupNode(h, h.nodes[this].group)

\* Node::clone: the shallow copy made by doClone of the node's kind, as the
\* last node of the heap
clone(h, node) ==
    LET n == h.nodes[node]
    IN CASE n.kind = "Group" -> doClone(h, node)
         [] n.kind = "Entity" -> NewEntityNode(h, n.entity)
         [] n.kind = "Brush" -> NewBrushNode(h, n.brush)
         [] OTHER -> NewContainerNode(h, n.kind)

RECURSIVE cloneRecursively(_, _)
RECURSIVE CloneRecursivelyFrom(_, _, _, _)
\* the clones of the children of node from child i on are added to cloneNode
CloneRecursivelyFrom(h, node, i, cloneNode) ==
    IF i > Len(h.nodes[node].children) THEN h
    ELSE LET cloned == cloneRecursively(h, h.nodes[node].children[i])
         IN CloneRecursivelyFrom(addChildren(cloned.h, cloneNode, <<cloned.node>>),
                                 node, i + 1, cloneNode)

\* Node::cloneRecursively: the clone of node with the clones of its children
cloneRecursively(h, node) ==
    LET cloned == clone(h, node)
        cloneNode == Len(cloned.nodes)
    IN [h |-> CloneRecursivelyFrom(cloned, node, 1, cloneNode), node |-> cloneNode]

(***************************************************************************)
(* The edit state of a group node.                                         *)
(***************************************************************************)
\* enum class EditState
EditStates == {"Open", "Closed", "DescendantOpen"}

\* GroupNode::opened
opened(h, this) == h.nodes[this].editState = "Open"

\* GroupNode::hasOpenedDescendant
hasOpenedDescendant(h, this) == h.nodes[this].editState = "DescendantOpen"

\* mutant: closed() is true of every node that is not open
closed_notOpen(h, this) == h.nodes[this].editState # "Open"

\* GroupNode::closed
closed(h, this) == h.nodes[this].editState = "Closed"

\* GroupNode::setEditState
setEditState(h, this, editState) == [h EXCEPT !.nodes[this].editState = editState]

RECURSIVE VisitParent_stopsAtOpen(_, _, _)
\* mutant: an ancestor that is open keeps its state and ends the walk
VisitParent_stopsAtOpen(h, node, editState) ==
    LET parent == h.nodes[node].parent
    IN IF parent = NoId THEN h
       ELSE IF h.nodes[parent].kind = "Group" /\ opened(h, parent) THEN h
       ELSE IF h.nodes[parent].kind = "Group"
       THEN VisitParent_stopsAtOpen(setEditState(h, parent, editState), parent, editState)
       ELSE VisitParent_stopsAtOpen(h, parent, editState)

RECURSIVE VisitParent_keepsOpenDescendants(_, _, _)
\* mutant: an ancestor that has another open descendant keeps its state
VisitParent_keepsOpenDescendants(h, node, editState) ==
    LET parent == h.nodes[node].parent
        RECURSIVE under(_)
        under(n) == {h.nodes[n].children[i] : i \in 1..Len(h.nodes[n].children)}
                    \cup UNION {under(h.nodes[n].children[i]) : i \in 1..Len(h.nodes[n].children)}
    IN IF parent = NoId THEN h
       ELSE IF h.nodes[parent].kind = "Group"
               /\ ~(editState = "Closed" /\ \E d \in under(parent) : h.nodes[d].editState = "Open")
       THEN VisitParent_keepsOpenDescendants(setEditState(h, parent, editState), parent, editState)
       ELSE VisitParent_keepsOpenDescendants(h, parent, editState)

RECURSIVE VisitParent(_, _, _)
\* node->visitParent(lambda) with the lambda of setAncestorEditState: a
\* group node is given the state, and every kind of node passes the visit on
\* to its own parent
VisitParent(h, node, editState) ==
    LET parent == h.nodes[node].parent
    IN IF parent = NoId THEN h
       ELSE IF h.nodes[parent].kind = "Group"
       THEN VisitParent(setEditState(h, parent, editState), parent, editState)
       ELSE VisitParent(h, parent, editState)

\* GroupNode::setAncestorEditState
setAncestorEditState(h, this, editState) == VisitParent(h, this, editState)

\* GroupNode::openAncestors
openAncestors(h, this) == setAncestorEditState(h, this, "DescendantOpen")

\* mutant: the ancestors keep their state
closeAncestors_none(h, this) == h

\* GroupNode::closeAncestors
closeAncestors(h, this) == setAncestorEditState(h, this, "Closed")

\* assert(m_editState == EditState::Closed) of GroupNode::open
openAssertion(h, this) == h.nodes[this].editState = "Closed"

\* GroupNode::open
open(h, this) == openAncestors(setEditState(h, this, "Open"), this)

\* assert(m_editState == EditState::Open) of GroupNode::close
closeAssertion(h, this) == h.nodes[this].editState = "Open"

\* GroupNode::close
close(h, this) == closeAncestors(setEditState(h, this, "Closed"), this)

(***************************************************************************)
(* Logical bounds of a node, as Node::logicalBounds reports them.          *)
(***************************************************************************)
RECURSIVE logicalBounds(_, _)
RECURSIVE computeLogicalBounds(_, _, _)

\* computeLogicalBounds(nodes, defaultBounds): the merged bounds of the
\* nodes, or defaultBounds if there are none
computeLogicalBounds(h, children, defaultBounds) ==
    IF children = <<>> THEN defaultBounds
    ELSE IF Len(children) = 1 THEN logicalBounds(h, children[1])
    ELSE BBoxMerge(logicalBounds(h, Head(children)),
                   computeLogicalBounds(h, Tail(children), defaultBounds))

logicalBounds(h, node) ==
    LET n == h.nodes[node]
    IN CASE n.kind = "Brush" -> BBox(n.brush.lo, n.brush.hi)
         [] n.kind = "Entity" ->
              IF n.children = <<>>
              THEN BBox(n.entity.origin - DefaultBoundsHalf, n.entity.origin + DefaultBoundsHalf)
              ELSE computeLogicalBounds(h, n.children, BBox(0, 0))
         [] OTHER -> computeLogicalBounds(h, n.children, BBox(0, 0))

(***************************************************************************)
(* The transform cloner.                                                   *)
(***************************************************************************)
Success(h, value) == [ok |-> TRUE, h |-> h, value |-> value, error |-> ""]
Failure(h, message) == [ok |-> FALSE, h |-> h, value |-> <<>>, error |-> message]

WorldNodeError == "Visited world node while updating linked groups"
LayerNodeError == "Visited layer node while updating linked groups"
WorldBoundsError == "Linked node exceeds world bounds"
NotInvertibleError == "Group transformation is not invertible"

\* mutant: the copy of a group node references the record of its source
VisitChild_groupJoinsLinkSet(h, childNode, worldBounds, transformation) ==
    LET n == h.nodes[childNode]
    IN CASE n.kind = "World" -> Failure(h, WorldNodeError)
         [] n.kind = "Layer" -> Failure(h, LayerNodeError)
         [] n.kind = "Group" ->
              Success([h EXCEPT !.nodes =
                          Append(@, NodeObject("Group", GroupTransform(n.group, transformation),
                                               n.sharedData, NoEntity, NoBrush))], <<>>)
         [] n.kind = "Entity" ->
              Success(NewEntityNode(h, EntityTransform(n.entity, transformation)), <<>>)
         [] n.kind = "Brush" ->
              LET t == BrushTransform(n.brush, worldBounds, transformation)
              IN IF t.ok THEN Success(NewBrushNode(h, t.brush), <<>>)
                 ELSE Failure(h, BrushErrorMessage)

\* mutant: a brush whose transformation fails is copied as it is
VisitChild_ignoresBrushError(h, childNode, worldBounds, transformation) ==
    LET n == h.nodes[childNode]
    IN CASE n.kind = "World" -> Failure(h, WorldNodeError)
         [] n.kind = "Layer" -> Failure(h, LayerNodeError)
         [] n.kind = "Group" ->
              Success(NewGroupNode(h, GroupTransform(n.group, transformation)), <<>>)
         [] n.kind = "Entity" ->
              Success(NewEntityNode(h, EntityTransform(n.entity, transformation)), <<>>)
         [] n.kind = "Brush" ->
              Success(NewBrushNode(h, BrushTransform(n.brush, worldBounds, transformation).brush),
                      <<>>)

\* mutant: a world or layer node is copied like any other node
VisitChild_copiesContainers(h, childNode, worldBounds, transformation) ==
    LET n == h.nodes[childNode]
    IN CASE n.kind = "Group" ->
              Success(NewGroupNode(h, GroupTransform(n.group, transformation)), <<>>)
         [] n.kind = "Entity" ->
              Success(NewEntityNode(h, EntityTransform(n.entity, transformation)), <<>>)
         [] n.kind = "Brush" ->
              LET t == BrushTransform(n.brush, worldBounds, transformation)
              IN IF t.ok THEN Success(NewBrushNode(h, t.brush), <<>>)
                 ELSE Failure(h, BrushErrorMessage)
         [] OTHER -> Success(NewContainerNode(h, n.kind), <<>>)

\* the visitor of cloneAndTransformChildren: the transformed copy of one
\* child, allocated as the last node of the heap
VisitChild(h, childNode, worldBounds, transformation) ==
    LET n == h.nodes[childNode]
    IN CASE n.kind = "World" -> Failure(h, WorldNodeError)
         [] n.kind = "Layer" -> Failure(h, LayerNodeError)
         [] n.kind = "Group" ->
              Success(NewGroupNode(h, GroupTransform(n.group, transformation)), <<>>)
         [] n.kind = "Entity" ->
              Success(NewEntityNode(h, EntityTransform(n.entity, transformation)), <<>>)
         [] n.kind = "Brush" ->
              LET t == BrushTransform(n.brush, worldBounds, transformation)
              IN IF t.ok THEN Success(NewBrushNode(h, t.brush), <<>>)
                 ELSE Failure(h, BrushErrorMessage)

\* mutant: no node is rejected
WithinWorldBounds_always(h, worldBounds, newChildNode) == TRUE

\* mutant: only the lower corner is compared
WithinWorldBounds_minOnly(h, worldBounds, newChildNode) ==
    worldBounds.min <= logicalBounds(h, newChildNode).min

\* worldBounds.contains(newChildNode->logicalBounds())
WithinWorldBounds(h, worldBounds, newChildNode) ==
    BBoxContains(worldBounds, logicalBounds(h, newChildNode))

RECURSIVE cloneAndTransformChildren(_, _, _, _)

RECURSIVE CloneChildrenFrom_checksAfterRecursion(_, _, _, _, _, _)
\* mutant: the bounds of the new node are checked after its children were
\* cloned and added
CloneChildrenFrom_checksAfterRecursion(h, node, i, worldBounds, transformation, result) ==
    IF i > Len(h.nodes[node].children) THEN Success(h, result)
    ELSE LET childNode == h.nodes[node].children[i]
             visit == VisitChild([h EXCEPT !.visited = Append(@, <<h.cloned[Len(h.cloned)], childNode>>)],
                                 childNode, worldBounds, transformation)
             newChildNode == Len(visit.h.nodes)
         IN IF ~visit.ok THEN visit
            ELSE LET newChildren == cloneAndTransformChildren(visit.h, childNode, worldBounds,
                                                              transformation)
                     added == addChildren(newChildren.h, newChildNode, newChildren.value)
                     check == [added EXCEPT !.checked = Append(@, <<h.cloned[Len(h.cloned)], childNode>>)]
                 IN IF ~newChildren.ok THEN newChildren
                    ELSE IF ~WithinWorldBounds(check, worldBounds, newChildNode)
                         THEN Failure(check, WorldBoundsError)
                    ELSE CloneChildrenFrom_checksAfterRecursion(
                             check, node, i + 1, worldBounds, transformation,
                             Append(result, newChildNode))

RECURSIVE CloneChildrenFrom(_, _, _, _, _, _)
\* the loop of cloneAndTransformChildren from child i on; result holds the
\* new children built so far
CloneChildrenFrom(h, node, i, worldBounds, transformation, result) ==
    IF i > Len(h.nodes[node].children) THEN Success(h, result)
    ELSE LET childNode == h.nodes[node].children[i]
             visit == VisitChild([h EXCEPT !.visited = Append(@, <<h.cloned[Len(h.cloned)], childNode>>)],
                                 childNode, worldBounds, transformation)
             newChildNode == Len(visit.h.nodes)
             check == [visit.h EXCEPT !.checked = Append(@, <<h.cloned[Len(h.cloned)], childNode>>)]
         IN IF ~visit.ok THEN visit
            ELSE IF ~WithinWorldBounds(check, worldBounds, newChildNode)
                 THEN Failure(check, WorldBoundsError)
            ELSE LET newChildren == cloneAndTransformChildren(check, childNode, worldBounds,
                                                              transformation)
                 IN IF ~newChildren.ok THEN newChildren
                    ELSE CloneChildrenFrom(
                             addChildren(newChildren.h, newChildNode, newChildren.value),
                             node, i + 1, worldBounds, transformation,
                             Append(result, newChildNode))

\* mutant: the children are walked twice and the copies of the second walk
\* are returned
cloneAndTransformChildren_twice(h, node, worldBounds, transformation) ==
    LET first == CloneChildrenFrom(h, node, 1, worldBounds, transformation, <<>>)
    IN IF ~first.ok THEN first
       ELSE CloneChildrenFrom(first.h, node, 1, worldBounds, transformation, <<>>)

\* mutant: the new children are returned in reverse order
cloneAndTransformChildren_reversed(h, node, worldBounds, transformation) ==
    LET forward == CloneChildrenFrom(h, node, 1, worldBounds, transformation, <<>>)
        reversed[k \in 0..Len(forward.value)] ==
            IF k = 0 THEN <<>>
            ELSE Append(reversed[k - 1], forward.value[Len(forward.value) + 1 - k])
    IN [forward EXCEPT !.value = reversed[Len(forward.value)]]

cloneAndTransformChildren(h, node, worldBounds, transformation) ==
    CloneChildrenFrom(h, node, 1, worldBounds, transformation, <<>>)

(***************************************************************************)
(* The property preserver.                                                 *)
(***************************************************************************)
\* mutant: the numbered variants of propertyKey are left as cloned
PreserveKey_keepsNumbered(clonedEntity, correspondingEntity, propertyKey) ==
    LET removed == removeProperty(clonedEntity.properties, propertyKey)
    IN [clonedEntity EXCEPT !.properties =
           IF hasProperty(correspondingEntity.properties, propertyKey)
           THEN addOrUpdateProperty(removed, propertyKey,
                                    property(correspondingEntity.properties, propertyKey))
           ELSE removed]

\* mutant: every key that starts with propertyKey is treated as a variant
PreserveKey_removesPrefixed(clonedEntity, correspondingEntity, propertyKey) ==
    LET removed == removeProperty(clonedEntity.properties, propertyKey)
        readded == IF hasProperty(correspondingEntity.properties, propertyKey)
                   THEN addOrUpdateProperty(removed, propertyKey,
                                            property(correspondingEntity.properties, propertyKey))
                   ELSE removed
        Keep(p) == p.key = propertyKey \/ ~IsPrefix(propertyKey, p.key)
    IN [clonedEntity EXCEPT !.properties =
           addOrUpdateAll(SelectSeq(readded, Keep),
                          numberedProperties(correspondingEntity.properties, propertyKey))]

\* the body of the loop over allPreservedProperties, for one propertyKey
PreserveKey(clonedEntity, correspondingEntity, propertyKey) ==
    LET removed == removeProperty(clonedEntity.properties, propertyKey)
        readded == IF hasProperty(correspondingEntity.properties, propertyKey)
                   THEN addOrUpdateProperty(removed, propertyKey,
                                            property(correspondingEntity.properties, propertyKey))
                   ELSE removed
        unnumbered == removeNumberedProperty(readded, propertyKey)
    IN [clonedEntity EXCEPT !.properties =
           addOrUpdateAll(unnumbered,
                          numberedProperties(correspondingEntity.properties, propertyKey))]

RECURSIVE PreserveKeys(_, _, _)
PreserveKeys(clonedEntity, correspondingEntity, keys) ==
    IF keys = <<>> THEN clonedEntity
    ELSE PreserveKeys(PreserveKey(clonedEntity, correspondingEntity, Head(keys)),
                      correspondingEntity, Tail(keys))

\* mutant: the declared keys of both sides are kept
SetPreservedFromCorresponding_union(clonedEntity, correspondingEntity) ==
    [clonedEntity EXCEPT !.preservedProperties =
        vec_sort_and_remove_duplicates(@ \o correspondingEntity.preservedProperties)]

\* mutant: the cloned entity keeps the preserved keys of the entity it was
\* cloned from
SetPreservedFromCorresponding_keepsOwn(clonedEntity, correspondingEntity) == clonedEntity

\* clonedEntity.setPreservedProperties(correspondingEntity.preservedProperties())
SetPreservedFromCorresponding(clonedEntity, correspondingEntity) ==
    [clonedEntity EXCEPT !.preservedProperties = correspondingEntity.preservedProperties]

\* preserveEntityProperties(EntityNode&, const EntityNode&), on the Entity values
preserveEntityProperties(clonedEntity, correspondingEntity) ==
    IF clonedEntity.preservedProperties = <<>> /\ correspondingEntity.preservedProperties = <<>>
    THEN clonedEntity
    ELSE LET allPreservedProperties ==
                 vec_sort_and_remove_duplicates(
                     clonedEntity.preservedProperties \o correspondingEntity.preservedProperties)
         IN PreserveKeys(SetPreservedFromCorresponding(clonedEntity, correspondingEntity),
                         correspondingEntity, allPreservedProperties)

\* mutant: the merged entity is stored in the member's node
PreserveEntityNode_intoCorresponding(h, clonedEntityNode, correspondingEntityNode) ==
    [h EXCEPT !.nodes[correspondingEntityNode].entity =
        preserveEntityProperties(h.nodes[clonedEntityNode].entity,
                                 h.nodes[correspondingEntityNode].entity)]

\* clonedEntityNode.setEntity(...)
PreserveEntityNode(h, clonedEntityNode, correspondingEntityNode) ==
    [h EXCEPT !.nodes[clonedEntityNode].entity =
        preserveEntityProperties(h.nodes[clonedEntityNode].entity,
                                 h.nodes[correspondingEntityNode].entity)]

RECURSIVE preserveEntityPropertiesOfNodes(_, _, _)
RECURSIVE PreserveNodesFrom(_, _, _, _)
\* preserveEntityProperties(const std::vector<T>&, const std::vector<Node*>&):
\* the lockstep walk from position i on
PreserveNodesFrom(h, clonedNodes, correspondingNodes, i) ==
    IF i > Len(clonedNodes) \/ i > Len(correspondingNodes) THEN h
    ELSE LET clonedNode == clonedNodes[i]
             correspondingNode == correspondingNodes[i]
             clonedKind == h.nodes[clonedNode].kind
             correspondingKind == h.nodes[correspondingNode].kind
             h1 == IF clonedKind = "Group" /\ correspondingKind = "Group"
                   THEN preserveEntityPropertiesOfNodes(h, h.nodes[clonedNode].children,
                                                        h.nodes[correspondingNode].children)
                   ELSE IF clonedKind = "Entity" /\ correspondingKind = "Entity"
                   THEN PreserveEntityNode(h, clonedNode, correspondingNode)
                   ELSE h
         IN PreserveNodesFrom(h1, clonedNodes, correspondingNodes, i + 1)

\* mutant: brush nodes are left out of both lists before the walk, so that
\* an entity is paired with the next entity and not with its positional peer
preserveEntityPropertiesOfNodes_skipsBrushes(h, clonedNodes, correspondingNodes) ==
    PreserveNodesFrom(h, SelectSeq(clonedNodes, LAMBDA n : h.nodes[n].kind # "Brush"),
                      SelectSeq(correspondingNodes, LAMBDA n : h.nodes[n].kind # "Brush"), 1)

preserveEntityPropertiesOfNodes(h, clonedNodes, correspondingNodes) ==
    PreserveNodesFrom(h, clonedNodes, correspondingNodes, 1)

(***************************************************************************)
(* The update propagator.                                                  *)
(***************************************************************************)
\* mutant: the factors of the product are exchanged
RelativeTransformation_swapped(h, linkedGroup, myInvertedTransformation) ==
    MatMul(myInvertedTransformation, h.nodes[linkedGroup].group.transformation)

\* linkedGroup->group().transformation() * myInvertedTransformation
RelativeTransformation(h, linkedGroup, myInvertedTransformation) ==
    MatMul(h.nodes[linkedGroup].group.transformation, myInvertedTransformation)

\* mutant: the new children are compared against the caller's children
BuildReplacement_preservesAgainstCaller(h, this, linkedGroup, newChildren) ==
    LET preserved == preserveEntityPropertiesOfNodes(
                         [h EXCEPT !.preserved = Append(@, <<linkedGroup, h.nodes[this].children>>)],
                         newChildren, h.nodes[this].children)
        cloned == doClone(preserved, linkedGroup)
        linkedGroupClone == Len(cloned.nodes)
    IN addChildren(addToLinkSet(cloned, this, linkedGroupClone), linkedGroupClone, newChildren)

\* mutant: the caller is cloned instead of the member
BuildReplacement_clonesCaller(h, this, linkedGroup, newChildren) ==
    LET preserved == preserveEntityPropertiesOfNodes(
                         [h EXCEPT !.preserved = Append(@, <<linkedGroup, h.nodes[linkedGroup].children>>)],
                         newChildren, h.nodes[linkedGroup].children)
        cloned == doClone(preserved, this)
        linkedGroupClone == Len(cloned.nodes)
    IN addChildren(addToLinkSet(cloned, this, linkedGroupClone), linkedGroupClone, newChildren)

\* mutant: the clone of the member is linked in the record it was made with
\* before it is put in the link set of the caller
BuildReplacement_linksClone(h, this, linkedGroup, newChildren) ==
    LET preserved == preserveEntityPropertiesOfNodes(
                         [h EXCEPT !.preserved = Append(@, <<linkedGroup, h.nodes[linkedGroup].children>>)],
                         newChildren, h.nodes[linkedGroup].children)
        cloned == doClone(preserved, linkedGroup)
        linkedGroupClone == Len(cloned.nodes)
    IN addChildren(addToLinkSet(link(cloned, linkedGroupClone), this, linkedGroupClone),
                   linkedGroupClone, newChildren)

\* the and_then branch of updateLinkedGroups: the replacement for linkedGroup
\* is the last node of the returned heap
BuildReplacement(h, this, linkedGroup, newChildren) ==
    LET preserved == preserveEntityPropertiesOfNodes(
                         [h EXCEPT !.preserved = Append(@, <<linkedGroup, h.nodes[linkedGroup].children>>)],
                         newChildren, h.nodes[linkedGroup].children)
        cloned == doClone(preserved, linkedGroup)
        linkedGroupClone == Len(cloned.nodes)
    IN addChildren(addToLinkSet(cloned, this, linkedGroupClone), linkedGroupClone, newChildren)

\* mutant: the caller is not skipped
IsOtherMember_always(this, linkedGroup) == TRUE

\* the members for which a replacement is built: linkedGroup != this
IsOtherMember(this, linkedGroup) == linkedGroup # this

RECURSIVE UpdateFrom_continueOnFailure(_, _, _, _, _, _)
\* mutant: a member whose clone fails is skipped and the loop goes on
UpdateFrom_continueOnFailure(h, this, worldBounds, myInvertedTransformation, i, result) ==
    IF i > Len(linkedGroups(h, this)) THEN Success(h, result)
    ELSE LET linkedGroup == linkedGroups(h, this)[i]
         IN IF ~IsOtherMember(this, linkedGroup)
            THEN UpdateFrom_continueOnFailure(h, this, worldBounds, myInvertedTransformation,
                                              i + 1, result)
            ELSE LET transformation ==
                         RelativeTransformation(h, linkedGroup, myInvertedTransformation)
                     newChildren ==
                         cloneAndTransformChildren([h EXCEPT !.cloned = Append(@, linkedGroup)],
                                                   this, worldBounds, transformation)
                 IN IF ~newChildren.ok
                    THEN UpdateFrom_continueOnFailure(
                             [h EXCEPT !.cloned = Append(@, linkedGroup)], this, worldBounds,
                             myInvertedTransformation, i + 1, result)
                    ELSE LET built == BuildReplacement(newChildren.h, this, linkedGroup,
                                                       newChildren.value)
                         IN UpdateFrom_continueOnFailure(
                                built, this, worldBounds, myInvertedTransformation, i + 1,
                                Append(result, <<linkedGroup, Len(built.nodes)>>))

RECURSIVE UpdateFrom(_, _, _, _, _, _)
\* the loop of updateLinkedGroups from member i on; result holds the pairs
\* built so far
UpdateFrom(h, this, worldBounds, myInvertedTransformation, i, result) ==
    IF i > Len(linkedGroups(h, this)) THEN Success(h, result)
    ELSE LET linkedGroup == linkedGroups(h, this)[i]
         IN IF ~IsOtherMember(this, linkedGroup)
            THEN UpdateFrom(h, this, worldBounds, myInvertedTransformation, i + 1, result)
            ELSE LET transformation ==
                         RelativeTransformation(h, linkedGroup, myInvertedTransformation)
                     newChildren ==
                         cloneAndTransformChildren([h EXCEPT !.cloned = Append(@, linkedGroup)],
                                                   this, worldBounds, transformation)
                 IN IF ~newChildren.ok THEN newChildren
                    ELSE LET built == BuildReplacement(newChildren.h, this, linkedGroup,
                                                       newChildren.value)
                         IN UpdateFrom(built, this, worldBounds, myInvertedTransformation, i + 1,
                                       Append(result, <<linkedGroup, Len(built.nodes)>>))

\* assert(linked()) of GroupNode::updateLinkedGroups
updateLinkedGroupsAssertion(h, this) == linked(h, this)

\* mutant: the success flag of vm::invert is ignored
updateLinkedGroups_uncheckedInverse(h, this, worldBounds) ==
    UpdateFrom(h, this, worldBounds, invert(h.nodes[this].group.transformation)[2], 1, <<>>)

\* GroupNode::updateLinkedGroups
updateLinkedGroups(h, this, worldBounds) ==
    LET inverted == invert(h.nodes[this].group.transformation)
    IN IF ~inverted[1] THEN Failure(h, NotInvertibleError)
       ELSE UpdateFrom(h, this, worldBounds, inverted[2], 1, <<>>)

(***************************************************************************)
(* Scenes: the trees and link sets that exist before a call.  A scene is   *)
(* built the way the tests build theirs: nodes are constructed and added   *)
(* as children, groups are put in a link set and linked.                   *)
(***************************************************************************)
EmptyHeap == [nodes |-> <<>>, records |-> <<>>, cloned |-> <<>>, visited |-> <<>>,
              checked |-> <<>>, preserved |-> <<>>]

Tree(kind, group, entity, brush, children) ==
    [kind |-> kind, group |-> group, entity |-> entity, brush |-> brush, children |-> children]

GroupTree(group, children) == Tree("Group", group, NoEntity, NoBrush, children)
EntityTree(entity, children) == Tree("Entity", NoGroup, entity, NoBrush, children)
BrushTree(brush) == Tree("Brush", NoGroup, NoEntity, brush, <<>>)
ContainerTree(kind) == Tree(kind, NoGroup, NoEntity, NoBrush, <<>>)

\* the node constructed for the root of a tree, as the last node of the heap
NewNodeOf(h, tree) ==
    CASE tree.kind = "Group" -> NewGroupNode(h, tree.group)
      [] tree.kind = "Entity" -> NewEntityNode(h, tree.entity)
      [] tree.kind = "Brush" -> NewBrushNode(h, tree.brush)
      [] OTHER -> NewContainerNode(h, tree.kind)

RECURSIVE BuildChildren(_, _, _)
\* constructs the trees and adds them as children of parent, in order
BuildChildren(h, parent, trees) ==
    IF trees = <<>> THEN h
    ELSE LET constructed == NewNodeOf(h, Head(trees))
             node == Len(constructed.nodes)
             filled == BuildChildren(constructed, node, Head(trees).children)
         IN BuildChildren(addChildren(filled, parent, <<node>>), parent, Tail(trees))

\* a new root group node with the given children; it is node Len(h.nodes) + 1
BuildGroup(h, group, trees) ==
    LET constructed == NewGroupNode(h, group)
    IN BuildChildren(constructed, Len(constructed.nodes), trees)

RECURSIVE Descendants(_, _)
\* the strict descendants of node
Descendants(h, node) ==
    LET children == Range(h.nodes[node].children)
    IN children \cup UNION {Descendants(h, c) : c \in children}

RECURSIVE Ancestors(_, _)
\* the strict ancestors of node
Ancestors(h, node) ==
    IF h.nodes[node].parent = NoId THEN {}
    ELSE {h.nodes[node].parent} \cup Ancestors(h, h.nodes[node].parent)

Transformations == {Mat(a, b) : a \in {-1, 0, 1}, b \in 0..MaxCoord}

Origins == 0..MaxCoord

\* world bounds that just hold a point entity at the origin, and wider ones
WorldBoundsChoices ==
    {BBox(0 - w, w) : w \in {DefaultBoundsHalf, DefaultBoundsHalf + MaxCoord}}

KeyK == <<"k">>
KeyK1 == <<"k", "1">>
KeyK12 == <<"k", "1", "2">>
KeyKJ == <<"k", "j">>

PropertyKeys == {KeyK, KeyK1, KeyK12, KeyKJ}
SourceValues == {"v0", "v1"}
TargetValues == {"v0"}

EdgeBrush == Brush(DefaultBoundsHalf - 1, DefaultBoundsHalf)

SourceEntity(origin) == Entity(origin, <<EntityProperty(KeyK, "v1")>>, <<>>)
TargetEntity == Entity(0, <<EntityProperty(KeyK, "v0")>>, <<KeyK>>)

\* the children of the first root group
FirstChildrenChoices ==
    {<<>>, <<EntityTree(NoEntity, <<BrushTree(EdgeBrush)>>)>>}
    \cup {<<EntityTree(SourceEntity(o), <<>>)>> : o \in Origins}
    \cup {<<BrushTree(EdgeBrush), EntityTree(SourceEntity(o), <<>>)>> : o \in Origins}
    \cup {<<EntityTree(SourceEntity(o), <<>>), BrushTree(EdgeBrush)>> : o \in Origins}
    \cup {<<GroupTree(Group("inner", Mat(1, o)), <<EntityTree(SourceEntity(0), <<>>)>>)>> :
            o \in Origins}

\* the children of the second root group
SecondChildrenChoices ==
    {<<EntityTree(TargetEntity, <<>>)>>,
     <<BrushTree(EdgeBrush), EntityTree(TargetEntity, <<>>)>>,
     <<GroupTree(Group("inner", IdentityMat), <<EntityTree(TargetEntity, <<>>)>>)>>}

\* the third root group: its transformation, its children and whether it is
\* a linked member
ThirdChoices ==
    {[linked |-> FALSE, transformation |-> IdentityMat, children |-> <<>>],
     [linked |-> TRUE, transformation |-> IdentityMat, children |-> <<>>],
     [linked |-> TRUE, transformation |-> Mat(0, 0),
      children |-> <<EntityTree(TargetEntity, <<>>)>>],
     [linked |-> TRUE, transformation |-> Mat(-1, 1),
      children |-> <<EntityTree(TargetEntity, <<>>)>>]}

\* the second root group is a linked member, in the link set but not linked,
\* or not in the link set
SecondLinkChoices == {"linked", "linkable", "singleton"}

\* three root groups; the link set is that of the first group
Scene(t1, t2, c1, c2, secondLink, third) ==
    LET b1 == BuildGroup(EmptyHeap, Group("g1", t1), c1)
        g1 == 1
        b2 == BuildGroup(b1, Group("g2", t2), c2)
        g2 == Len(b1.nodes) + 1
        b3 == BuildGroup(b2, Group("g3", third.transformation), third.children)
        g3 == Len(b2.nodes) + 1
        l1 == link(b3, g1)
        l2 == IF secondLink = "singleton" THEN l1
              ELSE IF secondLink = "linkable" THEN addToLinkSet(l1, g1, g2)
              ELSE link(addToLinkSet(l1, g1, g2), g2)
    IN IF third.linked THEN link(addToLinkSet(l2, g1, g3), g3) ELSE l2

NoCall == [this |-> NoId, worldBounds |-> BBox(0, 0), nodeCount |-> 0, recordCount |-> 0]

NoResult == [kind |-> "none", value |-> <<>>, error |-> "", cloned |-> <<>>, visited |-> <<>>,
             checked |-> <<>>, preserved |-> <<>>]

\* the last call of a link-set operation and the number of such calls so far
LinkCall(op, this, other, id, count) ==
    [op |-> op, this |-> this, other |-> other, id |-> id, count |-> count]

NoLinkCall == LinkCall("none", NoId, NoId, NoId, 0)

\* the assertion that failed and aborted the program: its expression, and
\* the member function and the node it was evaluated in
FailedAssertion(expression, function, this) ==
    [expression |-> expression, function |-> function, this |-> this]

NoFailedAssertion == FailedAssertion("", "", NoId)

Init ==
    \E t1 \in Transformations, t2 \in Transformations,
       c1 \in FirstChildrenChoices, c2 \in SecondChildrenChoices,
       secondLink \in SecondLinkChoices, third \in ThirdChoices :
        LET scene == Scene(t1, t2, c1, c2, secondLink, third)
        IN /\ nodes = scene.nodes
           /\ records = scene.records
           /\ updateCall = NoCall
           /\ updateResult = NoResult
           /\ linkCall = NoLinkCall
           /\ failedAssertion = NoFailedAssertion

\* property lists of at most MaxProps entries, keys in ascending order
PropertyLists(values) ==
    {p \in UNION {[1..n -> [key : PropertyKeys, value : values]] : n \in 0..MaxProps} :
        \A i \in 1..Len(p), j \in 1..Len(p) : i < j => StrLess(p[i].key, p[j].key)}

\* the declared preserved keys of an entity
PreservedLists == {<<>>, <<KeyK>>, <<KeyK1>>, <<KeyK1, KeyK>>}

\* two linked root groups with one entity each, as in the test
\* updateLinkedGroupsAndPreserveEntityProperties
PropertyScene(sourceEntity, targetEntity) ==
    LET b1 == BuildGroup(EmptyHeap, Group("name", IdentityMat), <<EntityTree(sourceEntity, <<>>)>>)
        g1 == 1
        b2 == BuildGroup(b1, Group("name", IdentityMat), <<EntityTree(targetEntity, <<>>)>>)
        g2 == Len(b1.nodes) + 1
    IN link(addToLinkSet(link(b2, g1), g1, g2), g2)

InitProps ==
    \E sourceProperties \in PropertyLists(SourceValues),
       targetProperties \in PropertyLists(TargetValues),
       sourcePreserved \in PreservedLists, targetPreserved \in PreservedLists :
        LET scene == PropertyScene(Entity(0, sourceProperties, sourcePreserved),
                                   Entity(0, targetProperties, targetPreserved))
        IN /\ nodes = scene.nodes
           /\ records = scene.records
           /\ updateCall = NoCall
           /\ updateResult = NoResult
           /\ linkCall = NoLinkCall
           /\ failedAssertion = NoFailedAssertion

\* the identities given to setPersistentId
PersistentIds == {1, 2}

\* two root groups with one entity each; the first is linked or not, the
\* second is a linked member of the first's link set, in it but not linked,
\* or not in it
LinkScene(firstLinked, secondLink) ==
    LET b1 == BuildGroup(EmptyHeap, Group("g1", Mat(1, 1)), <<EntityTree(SourceEntity(0), <<>>)>>)
        g1 == 1
        b2 == BuildGroup(b1, Group("g2", IdentityMat), <<EntityTree(TargetEntity, <<>>)>>)
        g2 == Len(b1.nodes) + 1
        l1 == IF firstLinked THEN link(b2, g1) ELSE b2
    IN IF secondLink = "singleton" THEN l1
       ELSE IF secondLink = "linkable" THEN addToLinkSet(l1, g1, g2)
       ELSE link(addToLinkSet(l1, g1, g2), g2)

InitLinks ==
    \E firstLinked \in BOOLEAN, secondLink \in SecondLinkChoices :
        LET scene == LinkScene(firstLinked, secondLink)
        IN /\ nodes = scene.nodes
           /\ records = scene.records
           /\ updateCall = NoCall
           /\ updateResult = NoResult
           /\ linkCall = NoLinkCall
           /\ failedAssertion = NoFailedAssertion

\* the transformations of the nested groups
NestedTransformations == {Mat(a, b) : a \in {-1, 0, 1}, b \in {0, MaxCoord}}

\* the children of the inner group of the first outer group; a world or a
\* layer node among them is a breach of the tree invariant that the visitor
\* of the cloner provides for
InnerFirstChildrenChoices ==
    {<<EntityTree(SourceEntity(0), <<>>)>>,
     <<EntityTree(NoEntity, <<BrushTree(EdgeBrush)>>), EntityTree(SourceEntity(MaxCoord), <<>>)>>,
     <<BrushTree(EdgeBrush), EntityTree(SourceEntity(0), <<>>)>>,
     <<ContainerTree("World")>>,
     <<EntityTree(SourceEntity(MaxCoord), <<>>), ContainerTree("Layer")>>,
     <<BrushTree(EdgeBrush), EntityTree(NoEntity, <<ContainerTree("Layer")>>)>>}

\* the children of the first outer group that follow its inner group
OuterFirstChildrenChoices ==
    {<<>>, <<EntityTree(SourceEntity(MaxCoord), <<>>)>>, <<ContainerTree("World")>>}

\* the children of the inner group of the second outer group
InnerSecondChildrenChoices ==
    {<<EntityTree(TargetEntity, <<>>)>>,
     <<BrushTree(EdgeBrush), EntityTree(TargetEntity, <<>>), EntityTree(TargetEntity, <<>>)>>}

\* the transformations of the second outer group
OuterSecondTransformations == {IdentityMat, Mat(-1, MaxCoord), Mat(0, 0)}

\* the first group of a level is linked alone, or both groups of the level
\* are linked members of one link set
LevelLinkChoices == {"alone", "both"}

\* the members of a level: first is linked, and second with it if both are
LinkLevel(h, first, second, levelLink) ==
    IF levelLink = "both" THEN link(addToLinkSet(link(h, first), first, second), second)
    ELSE link(h, first)

\* two outer groups that hold an inner group each, with a link set of the
\* outer groups and another of the inner groups, as in the test
\* updateNestedLinkedGroup
NestedScene(ti1, ti2, to2, ci1, co1, ci2, outerLink, innerLink) ==
    LET b1 == BuildGroup(EmptyHeap, Group("outer", IdentityMat),
                         <<GroupTree(Group("inner", ti1), ci1)>> \o co1)
        o1 == 1
        i1 == 2
        b2 == BuildGroup(b1, Group("outer2", to2), <<GroupTree(Group("inner2", ti2), ci2)>>)
        o2 == Len(b1.nodes) + 1
        i2 == Len(b1.nodes) + 2
    IN LinkLevel(LinkLevel(b2, o1, o2, outerLink), i1, i2, innerLink)

InitNested ==
    \E ti1 \in NestedTransformations, ti2 \in NestedTransformations,
       to2 \in OuterSecondTransformations,
       ci1 \in InnerFirstChildrenChoices, co1 \in OuterFirstChildrenChoices,
       ci2 \in InnerSecondChildrenChoices,
       outerLink \in LevelLinkChoices, innerLink \in LevelLinkChoices :
        LET scene == NestedScene(ti1, ti2, to2, ci1, co1, ci2, outerLink, innerLink)
        IN /\ nodes = scene.nodes
           /\ records = scene.records
           /\ updateCall = NoCall
           /\ updateResult = NoResult
           /\ linkCall = NoLinkCall
           /\ failedAssertion = NoFailedAssertion

\* the children of the first root group of the scenes whose results are
\* spliced in: an entity that declares a preserved key of its own, a brush
\* and an entity, or an inner group
SpliceFirstChildrenChoices ==
    {<<EntityTree(Entity(o, <<EntityProperty(KeyK, "v1"), EntityProperty(KeyK1, "v1")>>,
                         <<KeyK1>>), <<>>)>> : o \in Origins}
    \cup {<<BrushTree(EdgeBrush), EntityTree(SourceEntity(0), <<>>)>>,
          <<GroupTree(Group("inner", Mat(1, MaxCoord)), <<EntityTree(SourceEntity(0), <<>>)>>)>>}

\* the children of the second root group of these scenes
SpliceSecondChildrenChoices ==
    {<<EntityTree(TargetEntity, <<>>)>>,
     <<EntityTree(Entity(0, <<EntityProperty(KeyK1, "v0"), EntityProperty(KeyKJ, "v0")>>,
                         <<KeyK1, KeyK>>), <<>>)>>,
     <<BrushTree(EdgeBrush), EntityTree(TargetEntity, <<>>)>>,
     <<GroupTree(Group("inner", IdentityMat), <<EntityTree(TargetEntity, <<>>)>>)>>}

InitSplice ==
    \E t1 \in Transformations, t2 \in Transformations,
       c1 \in SpliceFirstChildrenChoices, c2 \in SpliceSecondChildrenChoices,
       third \in ThirdChoices :
        LET scene == Scene(t1, t2, c1, c2, "linked", third)
        IN /\ nodes = scene.nodes
           /\ records = scene.records
           /\ updateCall = NoCall
           /\ updateResult = NoResult
           /\ linkCall = NoLinkCall
           /\ failedAssertion = NoFailedAssertion

\* the group trees whose nodes are opened and closed: an outer group with an
\* inner group as in the test updateNestedLinkedGroup of GroupNodesTest, and
\* such trees with a third group below, beside or apart from the inner one
EditTreeChoices ==
    {<<GroupTree(Group("outer", IdentityMat),
                 <<GroupTree(Group("inner", IdentityMat), <<BrushTree(EdgeBrush)>>)>>)>>,
     <<GroupTree(Group("outer", IdentityMat),
                 <<GroupTree(Group("inner", IdentityMat),
                             <<GroupTree(Group("innermost", IdentityMat), <<>>)>>)>>)>>,
     <<GroupTree(Group("outer", IdentityMat),
                 <<GroupTree(Group("inner", IdentityMat), <<>>),
                   GroupTree(Group("inner2", IdentityMat), <<>>)>>)>>,
     <<GroupTree(Group("outer", IdentityMat),
                 <<GroupTree(Group("inner", IdentityMat), <<>>)>>),
       GroupTree(Group("outer2", IdentityMat), <<>>)>>,
     <<GroupTree(Group("outer", IdentityMat),
                 <<GroupTree(Group("inner", IdentityMat),
                             <<GroupTree(Group("innermost", IdentityMat), <<>>)>>),
                   GroupTree(Group("inner2", IdentityMat), <<>>)>>)>>}

\* the trees are the children of the default layer of a world, or they are
\* root nodes
EditParentChoices == {"Layer", "none"}

RECURSIVE BuildRoots(_, _)
\* constructs the trees as nodes without a parent
BuildRoots(h, trees) ==
    IF trees = <<>> THEN h
    ELSE BuildRoots(BuildGroup(h, Head(trees).group, Head(trees).children), Tail(trees))

EditScene(parent, trees) ==
    IF parent = "Layer"
    THEN BuildChildren(NewContainerNode(EmptyHeap, "World"), 1,
                       <<Tree("Layer", NoGroup, NoEntity, NoBrush, trees)>>)
    ELSE BuildRoots(EmptyHeap, trees)

InitEdit ==
    \E parent \in EditParentChoices, trees \in EditTreeChoices :
        LET scene == EditScene(parent, trees)
        IN /\ nodes = scene.nodes
           /\ records = scene.records
           /\ updateCall = NoCall
           /\ updateResult = NoResult
           /\ linkCall = NoLinkCall
           /\ failedAssertion = NoFailedAssertion

(***************************************************************************)
(* Actions.                                                                *)
(***************************************************************************)
Heap == [nodes |-> nodes, records |-> records, cloned |-> <<>>, visited |-> <<>>,
         checked |-> <<>>, preserved |-> <<>>]

\* no assertion has failed: the program has not been aborted
Running == failedAssertion = NoFailedAssertion

GroupNodes == {n \in 1..Len(nodes) : nodes[n].kind = "Group"}

\* this->updateLinkedGroups(worldBounds) on a linked group node.  On an error
\* the nodes built so far are destroyed with the local result vector.
UpdateLinkedGroups(this, worldBounds) ==
    /\ Running
    /\ updateResult.kind = "none"
    /\ updateLinkedGroupsAssertion(Heap, this)
    /\ \E r \in {updateLinkedGroups(Heap, this, worldBounds)} :
          /\ nodes' = IF r.ok THEN r.h.nodes ELSE SubSeq(r.h.nodes, 1, Len(nodes))
          /\ records' = IF r.ok THEN r.h.records ELSE SubSeq(r.h.records, 1, Len(records))
          /\ updateCall' = [this |-> this, worldBounds |-> worldBounds,
                            nodeCount |-> Len(nodes), recordCount |-> Len(records)]
          /\ updateResult' = [kind |-> IF r.ok THEN "success" ELSE "error",
                              value |-> r.value, error |-> r.error,
                              cloned |-> r.h.cloned, visited |-> r.h.visited,
                              checked |-> r.h.checked, preserved |-> r.h.preserved]
    /\ UNCHANGED <<linkCall, failedAssertion>>

\* the caller drops the result: the replacements it owns are destroyed
DiscardResult ==
    /\ Running
    /\ updateResult.kind # "none"
    /\ nodes' = SubSeq(nodes, 1, updateCall.nodeCount)
    /\ records' = SubSeq(records, 1, updateCall.recordCount)
    /\ updateCall' = NoCall
    /\ updateResult' = NoResult
    /\ UNCHANGED <<linkCall, failedAssertion>>

\* a link-set operation may be called: the program runs, no result of
\* updateLinkedGroups is held, and fewer than MaxLinkCalls such calls were made
LinkSetIdle == Running /\ updateResult.kind = "none" /\ linkCall.count < MaxLinkCalls

\* the heap h is the state after the call op(this, other, id)
Called(h, op, this, other, id) ==
    /\ nodes' = h.nodes
    /\ records' = h.records
    /\ linkCall' = LinkCall(op, this, other, id, linkCall.count + 1)
    /\ UNCHANGED <<updateCall, updateResult, failedAssertion>>

\* the assertion expression of function failed in this: abort() is called
\* before the function has done anything
Aborted(expression, function, this) ==
    /\ failedAssertion' = FailedAssertion(expression, function, this)
    /\ UNCHANGED <<nodes, records, updateCall, updateResult, linkCall>>

\* GroupNode(Group("g3")) is constructed
ConstructGroupNode ==
    /\ LinkSetIdle
    /\ Cardinality(GroupNodes) < MaxGroupNodes
    /\ Called(NewGroupNode(Heap, Group("g3", IdentityMat)), "construct", Len(nodes) + 1, NoId, NoId)

\* this->link(), where the assertion !linked() holds
Link(this) ==
    /\ LinkSetIdle
    /\ linkAssertion(Heap, this)
    /\ Called(link(Heap, this), "link", this, NoId, NoId)

\* this->link(), where the assertion !linked() fails
LinkAssertionFails(this) ==
    /\ LinkSetIdle
    /\ ~linkAssertion(Heap, this)
    /\ Aborted("!linked()", "link", this)

\* this->unlink(), where the assertion linked() holds
Unlink(this) ==
    /\ LinkSetIdle
    /\ unlinkAssertion(Heap, this)
    /\ Called(unlink(Heap, this), "unlink", this, NoId, NoId)

\* this->unlink(), where the assertion linked() fails
UnlinkAssertionFails(this) ==
    /\ LinkSetIdle
    /\ ~unlinkAssertion(Heap, this)
    /\ Aborted("linked()", "unlink", this)

\* this->updateLinkedGroups(worldBounds), where the assertion linked() fails
UpdateLinkedGroupsAssertionFails(this) ==
    /\ Running
    /\ updateResult.kind = "none"
    /\ ~updateLinkedGroupsAssertion(Heap, this)
    /\ Aborted("linked()", "updateLinkedGroups", this)

\* this->addToLinkSet(groupNode)
AddToLinkSet(this, groupNode) ==
    /\ LinkSetIdle
    /\ Called(addToLinkSet(Heap, this, groupNode), "addToLinkSet", this, groupNode, NoId)

\* this->setPersistentId(id)
SetPersistentId(this, id) ==
    /\ LinkSetIdle
    /\ Called(setPersistentId(Heap, this, id), "setPersistentId", this, NoId, id)

\* this->clone(worldBounds); the clone is recorded as the other node of the call
Clone(this) ==
    /\ LinkSetIdle
    /\ Cardinality(GroupNodes) < MaxGroupNodes
    /\ Called(clone(Heap, this), "clone", this, Len(nodes) + 1, NoId)

\* this->cloneRecursively(worldBounds)
CloneRecursively(this) ==
    /\ LinkSetIdle
    /\ Cardinality(GroupNodes) < MaxGroupNodes
    /\ Called(cloneRecursively(Heap, this).h, "cloneRecursively", this, Len(nodes) + 1, NoId)

\* open() or close() may be called: the program runs and fewer than
\* MaxEditCalls calls were made
EditIdle == Running /\ linkCall.count < MaxEditCalls

\* this->open(), where the assertion on the edit state holds
Open(this) ==
    /\ EditIdle
    /\ openAssertion(Heap, this)
    /\ Called(open(Heap, this), "open", this, NoId, NoId)

\* this->open(), where the assertion on the edit state fails
OpenAssertionFails(this) ==
    /\ EditIdle
    /\ ~openAssertion(Heap, this)
    /\ Aborted("m_editState == EditState::Closed", "open", this)

\* this->close(), where the assertion on the edit state holds
Close(this) ==
    /\ EditIdle
    /\ closeAssertion(Heap, this)
    /\ Called(close(Heap, this), "close", this, NoId, NoId)

\* this->close(), where the assertion on the edit state fails
CloseAssertionFails(this) ==
    /\ EditIdle
    /\ ~closeAssertion(Heap, this)
    /\ Aborted("m_editState == EditState::Open", "close", this)

Next ==
    \/ \E this \in GroupNodes, worldBounds \in WorldBoundsChoices :
           UpdateLinkedGroups(this, worldBounds)
    \/ DiscardResult

Spec == Init /\ [][Next]_vars

SpecProps == InitProps /\ [][Next]_vars

SpecNested == InitNested /\ [][Next]_vars

NextLinks ==
    \/ ConstructGroupNode
    \/ \E this \in GroupNodes : Link(this)
    \/ \E this \in GroupNodes : Unlink(this)
    \/ \E this \in GroupNodes, groupNode \in GroupNodes : AddToLinkSet(this, groupNode)
    \/ \E this \in GroupNodes, id \in PersistentIds : SetPersistentId(this, id)
    \/ \E this \in GroupNodes : LinkAssertionFails(this)
    \/ \E this \in GroupNodes : UnlinkAssertionFails(this)
    \/ \E this \in GroupNodes : UpdateLinkedGroupsAssertionFails(this)
    \/ \E this \in GroupNodes, worldBounds \in WorldBoundsChoices :
           UpdateLinkedGroups(this, worldBounds)
    \/ DiscardResult

SpecLinks == InitLinks /\ [][NextLinks]_vars

\* the link-set operations together with clone and cloneRecursively, as the
\* tests of the link set combine them
NextClones ==
    \/ \E this \in GroupNodes : Clone(this)
    \/ \E this \in GroupNodes : CloneRecursively(this)
    \/ \E this \in GroupNodes : Link(this)
    \/ \E this \in GroupNodes : Unlink(this)
    \/ \E this \in GroupNodes, groupNode \in GroupNodes : AddToLinkSet(this, groupNode)

SpecClones == InitLinks /\ [][NextClones]_vars

\* the nested scenes in which the inner group of the first outer group is
\* not transformed and that of the second is not or is translated
InitTermination ==
    \E ti2 \in {IdentityMat, Mat(1, MaxCoord)}, to2 \in OuterSecondTransformations,
       ci1 \in InnerFirstChildrenChoices, co1 \in OuterFirstChildrenChoices,
       ci2 \in InnerSecondChildrenChoices,
       outerLink \in LevelLinkChoices, innerLink \in LevelLinkChoices :
        LET scene == NestedScene(IdentityMat, ti2, to2, ci1, co1, ci2, outerLink, innerLink)
        IN /\ nodes = scene.nodes
           /\ records = scene.records
           /\ updateCall = NoCall
           /\ updateResult = NoResult
           /\ linkCall = NoLinkCall
           /\ failedAssertion = NoFailedAssertion

\* this->updateLinkedGroups(worldBounds) is entered with its assertion
\* holding and executed up to its return statement: the nodes it makes exist
\* and the local result vector holds the pairs built
RunUpdateLinkedGroups(this, worldBounds) ==
    /\ Running
    /\ updateResult.kind = "none"
    /\ updateLinkedGroupsAssertion(Heap, this)
    /\ \E r \in {updateLinkedGroups(Heap, this, worldBounds)} :
          /\ nodes' = r.h.nodes
          /\ records' = r.h.records
          /\ updateCall' = [this |-> this, worldBounds |-> worldBounds,
                            nodeCount |-> Len(nodes), recordCount |-> Len(records)]
          /\ updateResult' = [kind |-> "running", value |-> r.value, error |-> r.error,
                              cloned |-> r.h.cloned, visited |-> r.h.visited,
                              checked |-> r.h.checked, preserved |-> r.h.preserved]
    /\ UNCHANGED <<linkCall, failedAssertion>>

\* the call returns.  With an error the nodes built so far are destroyed
\* with the local result vector.
ReturnFromUpdateLinkedGroups ==
    /\ updateResult.kind = "running"
    /\ nodes' = IF updateResult.error = "" THEN nodes
                ELSE SubSeq(nodes, 1, updateCall.nodeCount)
    /\ records' = IF updateResult.error = "" THEN records
                  ELSE SubSeq(records, 1, updateCall.recordCount)
    /\ updateResult' = [updateResult EXCEPT
                           !.kind = IF updateResult.error = "" THEN "success" ELSE "error"]
    /\ UNCHANGED <<updateCall, linkCall, failedAssertion>>

\* a call of updateLinkedGroups in two steps, its body and its return; the
\* caller drops a result that was returned
NextTermination ==
    \/ \E this \in GroupNodes, worldBounds \in WorldBoundsChoices :
           RunUpdateLinkedGroups(this, worldBounds)
    \/ ReturnFromUpdateLinkedGroups
    \/ (updateResult.kind \in {"success", "error"} /\ DiscardResult)

\* updateLinkedGroups is synchronous and there is one thread: the call whose
\* body was executed returns
SpecTermination ==
    InitTermination /\ [][NextTermination]_vars /\ WF_vars(ReturnFromUpdateLinkedGroups)

RECURSIVE SpliceFrom(_, _, _)
\* the pairs from pair i on are spliced: the old node is unlinked and the
\* replacement is linked in its place
SpliceFrom(h, pairs, i) ==
    IF i > Len(pairs) THEN h
    ELSE SpliceFrom(link(unlink(h, pairs[i][1]), pairs[i][2]), pairs, i + 1)

\* the caller applies the result it holds: each old node is unlinked and
\* taken out of the tree, where its replacement is put and linked.  The old
\* nodes are kept by the caller for undoing the change.
SpliceResult ==
    /\ Running
    /\ updateResult.kind = "success"
    /\ linkCall.count < MaxSplices
    /\ \A i \in 1..Len(updateResult.value) :
          /\ unlinkAssertion(Heap, updateResult.value[i][1])
          /\ linkAssertion(Heap, updateResult.value[i][2])
    /\ \E h \in {SpliceFrom(Heap, updateResult.value, 1)} :
          /\ nodes' = h.nodes
          /\ records' = h.records
    /\ updateCall' = NoCall
    /\ updateResult' = NoResult
    /\ linkCall' = LinkCall("splice", updateCall.this, NoId, NoId, linkCall.count + 1)
    /\ UNCHANGED failedAssertion

\* results of updateLinkedGroups are dropped or spliced in
NextSplice ==
    \/ \E this \in GroupNodes, worldBounds \in WorldBoundsChoices :
           UpdateLinkedGroups(this, worldBounds)
    \/ DiscardResult
    \/ SpliceResult

SpecSplice == InitSplice /\ [][NextSplice]_vars

\* group nodes are constructed, opened and closed
NextEdit ==
    \/ ConstructGroupNode
    \/ \E this \in GroupNodes : Open(this)
    \/ \E this \in GroupNodes : OpenAssertionFails(this)
    \/ \E this \in GroupNodes : Close(this)
    \/ \E this \in GroupNodes : CloseAssertionFails(this)

SpecEdit == InitEdit /\ [][NextEdit]_vars

(***************************************************************************)
(* Vocabulary of the properties.  After a call has returned, Before is the *)
(* heap as it was when the call was made: the nodes and records that       *)
(* existed then (the call does not change them, C2).                       *)
(***************************************************************************)
Returned == updateResult.kind # "none"
Succeeded == updateResult.kind = "success"
Failed == updateResult.kind = "error"

Before ==
    [nodes |-> SubSeq(nodes, 1, updateCall.nodeCount),
     records |-> SubSeq(records, 1, updateCall.recordCount),
     cloned |-> <<>>, visited |-> <<>>, checked |-> <<>>, preserved |-> <<>>]

Caller == updateCall.this
CallerTransformation == nodes[Caller].group.transformation

InvertibleMats == {Mat(a, b) : a \in {-1, 1}, b \in (0 - MaxCoord)..MaxCoord}

IsInverseOf(m, t) == MatMul(m, t) = IdentityMat /\ MatMul(t, m) = IdentityMat

Invertible(t) == \E m \in InvertibleMats : IsInverseOf(m, t)

InverseOf(t) == CHOOSE m \in InvertibleMats : IsInverseOf(m, t)

\* member.transformation o inverse(caller.transformation)
ExpectedRelative(member) ==
    MatMul(nodes[member].group.transformation, InverseOf(CallerTransformation))

\* the entries of the caller's member list other than the caller, in order
OtherMembers == SelectSeq(linkedGroups(Before, Caller), LAMBDA g : g # Caller)

OldNodes == [i \in 1..Len(updateResult.value) |-> updateResult.value[i][1]]
Replacements == [i \in 1..Len(updateResult.value) |-> updateResult.value[i][2]]

\* the call left nothing behind but an error
NoReplacement ==
    /\ Failed
    /\ updateResult.value = <<>>
    /\ Len(nodes) = updateCall.nodeCount
    /\ Len(records) = updateCall.recordCount

ErrorMessages == {NotInvertibleError, WorldNodeError, LayerNodeError, WorldBoundsError,
                  BrushErrorMessage}

\* C1: if the cloner fails for some other member of the link set, the call
\* returns one error and no pair, whatever was built for earlier members
C1_AllOrNothing ==
    (/\ Returned
     /\ Invertible(CallerTransformation)
     /\ \E i \in 1..Len(OtherMembers) :
           ~cloneAndTransformChildren([Before EXCEPT !.cloned = <<OtherMembers[i]>>],
                                      Caller, updateCall.worldBounds,
                                      ExpectedRelative(OtherMembers[i])).ok)
    => (NoReplacement /\ updateResult.error \in ErrorMessages)

\* the cloner failed for the second member it was started for, after the
\* replacement for the first had been built
C1_Witness ==
    /\ Failed
    /\ Len(updateResult.cloned) = 2
    /\ cloneAndTransformChildren([Before EXCEPT !.cloned = <<OtherMembers[1]>>],
                                 Caller, updateCall.worldBounds,
                                 ExpectedRelative(OtherMembers[1])).ok
    /\ NoReplacement

\* C2: a call, successful or not, changes no node and no shared record that
\* existed before it
C2_NoSideEffect ==
    [][(updateResult.kind = "none" /\ updateResult'.kind # "none")
       => /\ Len(nodes') >= Len(nodes)
          /\ Len(records') >= Len(records)
          /\ \A n \in 1..Len(nodes) : nodes'[n] = nodes[n]
          /\ \A r \in 1..Len(records) : records'[r] = records[r]]_vars

\* a successful call that built a replacement whose entity took the
\* preserved keys of the member's entity
C2_Witness ==
    /\ Succeeded
    /\ \E i \in 1..Len(updateResult.value) :
          \E c \in Range(nodes[Replacements[i]].children) :
              nodes[c].kind = "Entity" /\ nodes[c].entity.preservedProperties # <<>>

\* C3: on success the old nodes of the pairs are the entries of the member
\* list other than the caller, in list order, one pair and one new node each
C3_OnePairPerOtherMember ==
    Succeeded
    => /\ OldNodes = OtherMembers
       /\ Caller \notin Range(OldNodes)
       /\ Len(updateResult.value) = Len(linkedGroups(Before, Caller)) - 1
       /\ \A i \in 1..Len(Replacements) :
             /\ Replacements[i] > updateCall.nodeCount
             /\ \A j \in 1..Len(Replacements) : i # j => Replacements[i] # Replacements[j]

\* the caller is the second of three members and gets two pairs
C3_Witness ==
    /\ Succeeded
    /\ Len(updateResult.value) = 2
    /\ linkedGroups(Before, Caller)[2] = Caller

\* C4: if the caller's transformation is not invertible the call fails with
\* NotInvertibleError, the cloner runs for no member and nothing is built
C4_NotInvertible ==
    (Returned /\ ~Invertible(CallerTransformation))
    => /\ NoReplacement
       /\ updateResult.error = NotInvertibleError
       /\ updateResult.cloned = <<>>
       /\ updateResult.visited = <<>>

\* the not-invertible caller has two other members and children to clone
C4_Witness ==
    /\ Failed
    /\ updateResult.error = NotInvertibleError
    /\ Len(OtherMembers) = 2
    /\ nodes[Caller].children # <<>>

RECURSIVE MovedBy(_, _, _)
\* node r is node s moved by the map x |-> m.a * x + m.b, and the children of
\* r are the children of s moved by it, position by position
MovedBy(r, s, m) ==
    /\ nodes[r].kind = nodes[s].kind
    /\ nodes[r].kind = "Group" =>
          /\ nodes[r].group.name = nodes[s].group.name
          /\ nodes[r].group.transformation.a = m.a * nodes[s].group.transformation.a
          /\ nodes[r].group.transformation.b = m.a * nodes[s].group.transformation.b + m.b
    /\ nodes[r].kind = "Entity" =>
          nodes[r].entity.origin = m.a * nodes[s].entity.origin + m.b
    /\ nodes[r].kind = "Brush" =>
          {nodes[r].brush.lo, nodes[r].brush.hi}
              = {m.a * nodes[s].brush.lo + m.b, m.a * nodes[s].brush.hi + m.b}
    /\ Len(nodes[r].children) = Len(nodes[s].children)
    /\ \A i \in 1..Len(nodes[r].children) :
          MovedBy(nodes[r].children[i], nodes[s].children[i], m)

RECURSIVE EntitiesShiftedBy(_, _, _)
\* every entity under r is delta away from the entity at its position under s
EntitiesShiftedBy(r, s, delta) ==
    /\ nodes[r].kind = "Entity" => nodes[r].entity.origin = nodes[s].entity.origin + delta
    /\ \A i \in 1..Len(nodes[r].children) :
          EntitiesShiftedBy(nodes[r].children[i], nodes[s].children[i], delta)

\* C5: on success the children of the replacement for member M are the
\* children of the caller N moved by M.transformation o inverse(N.transformation),
\* at every depth; a nested group's transformation becomes relative o old, and
\* between pure translations an entity at p appears at p + (t_M - t_N)
C5_RelativeTransform ==
    Succeeded
    => \A i \in 1..Len(updateResult.value) :
          LET M == OldNodes[i]
              R == Replacements[i]
          IN /\ Len(nodes[R].children) = Len(nodes[Caller].children)
             /\ \A j \in 1..Len(nodes[R].children) :
                   MovedBy(nodes[R].children[j], nodes[Caller].children[j], ExpectedRelative(M))
             /\ (nodes[M].group.transformation.a = 1 /\ CallerTransformation.a = 1)
                => \A j \in 1..Len(nodes[R].children) :
                      EntitiesShiftedBy(nodes[R].children[j], nodes[Caller].children[j],
                                        nodes[M].group.transformation.b - CallerTransformation.b)

\* caller and member are translated differently, neither by the relative
\* translation, and the caller holds a nested group that is itself translated
C5_Witness ==
    /\ Succeeded
    /\ \E i \in 1..Len(updateResult.value) :
          LET M == OldNodes[i]
          IN /\ nodes[M].group.transformation.a = 1
             /\ CallerTransformation.a = 1
             /\ nodes[M].group.transformation.b # CallerTransformation.b
             /\ ExpectedRelative(M) # nodes[M].group.transformation
             /\ ExpectedRelative(M) # CallerTransformation
             /\ \E c \in Range(nodes[Replacements[i]].children) :
                   /\ nodes[c].kind = "Group"
                   /\ nodes[c].group.transformation # ExpectedRelative(M)
                   /\ \E e \in Range(nodes[c].children) : nodes[e].kind = "Entity"

\* the logical bounds of the copy of node s moved by m, while it has no children
MovedBounds(s, m) ==
    LET p == m.a * nodes[s].brush.lo + m.b
        q == m.a * nodes[s].brush.hi + m.b
        o == m.a * nodes[s].entity.origin + m.b
    IN CASE nodes[s].kind = "Brush" -> BBox(IF p <= q THEN p ELSE q, IF p <= q THEN q ELSE p)
         [] nodes[s].kind = "Entity" -> BBox(o - DefaultBoundsHalf, o + DefaultBoundsHalf)
         [] OTHER -> BBox(0, 0)

Exceeds(worldBounds, bounds) == bounds.min < worldBounds.min \/ bounds.max > worldBounds.max

\* the copy of node s moved by m exists: a brush has a copy unless its solid
\* degenerates
HasCopy(s, m) == nodes[s].kind = "Brush" => m.a # 0

\* no transformation of a node under the caller can fail for any member
NoTransformFails ==
    \A d \in Descendants(Before, Caller) :
        /\ nodes[d].kind \in {"Group", "Entity", "Brush"}
        /\ \A i \in 1..Len(OtherMembers) : HasCopy(d, ExpectedRelative(OtherMembers[i]))

\* C6: if the copy made of a node under the caller for some member lies
\* outside the world bounds, the call fails with WorldBoundsError and builds no
\* replacement for any member; and when no transformation can fail, it is
\* enough that some node under the caller would be moved outside
C6_ExceedsWorldBounds ==
    /\ (/\ Returned
        /\ \E v \in 1..Len(updateResult.visited) :
              LET m == ExpectedRelative(updateResult.visited[v][1])
                  s == updateResult.visited[v][2]
              IN HasCopy(s, m) /\ Exceeds(updateCall.worldBounds, MovedBounds(s, m)))
       => (NoReplacement /\ updateResult.error = WorldBoundsError)
    /\ (/\ Returned
        /\ Invertible(CallerTransformation)
        /\ NoTransformFails
        /\ \E i \in 1..Len(OtherMembers), d \in Descendants(Before, Caller) :
              Exceeds(updateCall.worldBounds, MovedBounds(d, ExpectedRelative(OtherMembers[i]))))
       => (NoReplacement /\ updateResult.error = WorldBoundsError)

\* the second child cloned for the second member lies outside, after the
\* replacement for the first member had been built
C6_Witness ==
    /\ Failed
    /\ updateResult.error = WorldBoundsError
    /\ Len(updateResult.cloned) = 2
    /\ Len(nodes[Caller].children) = 2
    /\ Len(updateResult.visited) = 4

\* C7: on success every brush node and every entity node of every replacement
\* has logical bounds inside the world bounds of the call
C7_ReplacementsWithinWorldBounds ==
    Succeeded
    => \A i \in 1..Len(updateResult.value) :
          \A d \in Descendants(Heap, Replacements[i]) :
              nodes[d].kind \in {"Brush", "Entity"}
              => /\ updateCall.worldBounds.min <= logicalBounds(Heap, d).min
                 /\ logicalBounds(Heap, d).max <= updateCall.worldBounds.max

\* a replacement holds a brush entity whose brush touches the world bounds
C7_Witness ==
    /\ Succeeded
    /\ \E i \in 1..Len(updateResult.value) :
          \E e \in Descendants(Heap, Replacements[i]) :
              /\ nodes[e].kind = "Entity"
              /\ \E b \in Range(nodes[e].children) :
                    /\ nodes[b].kind = "Brush"
                    /\ logicalBounds(Heap, b).max = updateCall.worldBounds.max
                    /\ logicalBounds(Heap, e) = logicalBounds(Heap, b)

RECURSIVE PairsUnder(_, _, _)
\* the entity/entity pairs met when the children of the new node r, copied
\* from the children of s, are walked in lockstep with the children of t:
\* triples <<source entity node, target entity node, replacement entity node>>
PairsUnder(r, s, t) ==
    UNION {LET rc == nodes[r].children[j]
               sc == nodes[s].children[j]
               tc == nodes[t].children[j]
           IN IF nodes[rc].kind = "Entity" /\ nodes[tc].kind = "Entity" THEN {<<sc, tc, rc>>}
              ELSE IF nodes[rc].kind = "Group" /\ nodes[tc].kind = "Group"
              THEN PairsUnder(rc, sc, tc)
              ELSE {} :
           j \in {k \in 1..Len(nodes[r].children) : k <= Len(nodes[t].children)}}

EntityPairs ==
    UNION {PairsUnder(Replacements[i], Caller, OldNodes[i]) : i \in 1..Len(updateResult.value)}

SourceOf(pair) == nodes[pair[1]].entity
TargetOf(pair) == nodes[pair[2]].entity
ReplacementOf(pair) == nodes[pair[3]].entity

\* the values an entity has for key: empty when the key is absent
ValuesOf(entity, key) ==
    {entity.properties[i].value : i \in {n \in 1..Len(entity.properties) :
                                            entity.properties[n].key = key}}

KeysOf(entity) == {entity.properties[i].key : i \in 1..Len(entity.properties)}

KeysOfPair(pair) ==
    KeysOf(SourceOf(pair)) \cup KeysOf(TargetOf(pair)) \cup KeysOf(ReplacementOf(pair))

\* the keys declared preserved on either side of the pair
DeclaredOnEitherSide(pair) ==
    Range(SourceOf(pair).preservedProperties) \cup Range(TargetOf(pair).preservedProperties)

\* key is k followed by one or more digits
IsVariantOf(key, k) ==
    /\ Len(key) > Len(k)
    /\ SubSeq(key, 1, Len(k)) = k
    /\ \A i \in (Len(k) + 1)..Len(key) : key[i] \in {"0", "1", "2", "3", "4", "5", "6", "7", "8", "9"}

\* key is declared preserved on either side or is a variant of such a key
Covered(pair, key) ==
    \E k \in DeclaredOnEitherSide(pair) : key = k \/ IsVariantOf(key, k)

\* C8: for every entity/entity pair, a key declared preserved on either side
\* and each numbered variant of it has in the replacement the target's
\* value, or is absent if the target lacks it
C8_PreservedKeysKeepTarget ==
    Succeeded
    => \A pair \in EntityPairs :
          \A key \in KeysOfPair(pair) \cup DeclaredOnEitherSide(pair) :
              Covered(pair, key)
              => /\ ValuesOf(ReplacementOf(pair), key) = ValuesOf(TargetOf(pair), key)
                 /\ Cardinality({i \in 1..Len(ReplacementOf(pair).properties) :
                                    ReplacementOf(pair).properties[i].key = key}) <= 1

\* only the source declares k; it changed k and added the variant k1, and
\* the replacement has the target's k and no k1
C8_Witness ==
    /\ Succeeded
    /\ \E pair \in EntityPairs :
          /\ KeyK \in Range(SourceOf(pair).preservedProperties)
          /\ TargetOf(pair).preservedProperties = <<>>
          /\ ValuesOf(SourceOf(pair), KeyK) = {"v1"}
          /\ ValuesOf(TargetOf(pair), KeyK) = {"v0"}
          /\ ValuesOf(ReplacementOf(pair), KeyK) = {"v0"}
          /\ ValuesOf(SourceOf(pair), KeyK1) # {}
          /\ ValuesOf(TargetOf(pair), KeyK1) = {}
          /\ ValuesOf(ReplacementOf(pair), KeyK1) = {}

\* C9: for every entity/entity pair, a key that is neither declared preserved
\* on either side nor a variant of such a key has in the replacement the
\* source's value, or is absent if the source lacks it; if neither side
\* declares a key, the replacement's properties are the source's
C9_OtherKeysFollowSource ==
    Succeeded
    => \A pair \in EntityPairs :
          /\ \A key \in KeysOfPair(pair) :
                ~Covered(pair, key)
                => ValuesOf(ReplacementOf(pair), key) = ValuesOf(SourceOf(pair), key)
          /\ DeclaredOnEitherSide(pair) = {}
             => ReplacementOf(pair).properties = SourceOf(pair).properties

\* the target declares k; the key kj, which starts with k and is no variant
\* of it, differs between source and target and follows the source
C9_Witness ==
    /\ Succeeded
    /\ \E pair \in EntityPairs :
          /\ KeyK \in Range(TargetOf(pair).preservedProperties)
          /\ ~Covered(pair, KeyKJ)
          /\ ValuesOf(SourceOf(pair), KeyKJ) = {"v1"}
          /\ ValuesOf(TargetOf(pair), KeyKJ) = {"v0"}
          /\ ValuesOf(ReplacementOf(pair), KeyKJ) = {"v1"}

\* C10: for every entity/entity pair the replacement declares the keys the
\* target declares
C10_PreservedKeysAreTargets ==
    Succeeded
    => \A pair \in EntityPairs :
          ReplacementOf(pair).preservedProperties = TargetOf(pair).preservedProperties

\* source and target declare different keys and the replacement declares the
\* target's, not the source's and not both
C10_Witness ==
    /\ Succeeded
    /\ \E pair \in EntityPairs :
          /\ SourceOf(pair).preservedProperties # <<>>
          /\ TargetOf(pair).preservedProperties # <<>>
          /\ Range(SourceOf(pair).preservedProperties)
                 \ Range(TargetOf(pair).preservedProperties) # {}
          /\ ReplacementOf(pair).preservedProperties = TargetOf(pair).preservedProperties

(***************************************************************************)
(* Link sets.  The properties below are about behaviours in which link,    *)
(* unlink, addToLinkSet and setPersistentId are called and a group node is *)
(* constructed; linkCall is the last such call.                            *)
(***************************************************************************)
\* C11: every replacement R returned for a member M references the shared
\* record M references, after any calls of link, unlink and addToLinkSet
C11_ReplacementInLinkSetOfOld ==
    Succeeded
    => \A i \in 1..Len(updateResult.value) :
          nodes[Replacements[i]].sharedData = nodes[OldNodes[i]].sharedData

\* C12: the Group value of every replacement R is that of the member M it
\* replaces, and its children are as many as the caller's, of the same kinds
C12_ReplacementHasGroupOfOld ==
    Succeeded
    => \A i \in 1..Len(updateResult.value) :
          LET M == OldNodes[i]
              R == Replacements[i]
          IN /\ nodes[R].group.name = nodes[M].group.name
             /\ nodes[R].group.transformation = nodes[M].group.transformation
             /\ Len(nodes[R].children) = Len(nodes[Caller].children)
             /\ \A j \in 1..Len(nodes[R].children) :
                   /\ nodes[nodes[R].children[j]].kind = nodes[nodes[Caller].children[j]].kind
                   /\ nodes[nodes[R].children[j]].parent = R

\* member and caller differ in name and transformation, and the replacement
\* has the member's while its children are copies of the caller's
C12_Witness ==
    /\ Succeeded
    /\ \E i \in 1..Len(updateResult.value) :
          /\ nodes[OldNodes[i]].group.name # nodes[Caller].group.name
          /\ nodes[OldNodes[i]].group.transformation # CallerTransformation
          /\ nodes[Replacements[i]].group = nodes[OldNodes[i]].group
          /\ Len(nodes[Replacements[i]].children) = 2
          /\ Len(nodes[OldNodes[i]].children) = 1

\* C13: a group node g that was just constructed is in its own link set, is
\* not linked and has no linked groups; and every group node references a
\* record and is in its own link set, in every state
C13_FreshGroupNode ==
    /\ linkCall.op = "construct"
       => LET g == linkCall.this
          IN /\ nodes[g].kind = "Group"
             /\ inLinkSetWith(Heap, g, g)
             /\ records[nodes[g].sharedData].linkedGroups = <<>>
             /\ \A r \in 1..Len(records) : g \notin Range(records[r].linkedGroups)
    /\ \A g \in GroupNodes :
          /\ nodes[g].sharedData \in 1..Len(records)
          /\ inLinkSetWith(Heap, g, g)

\* a group node was constructed while two others were linked
C13_Witness ==
    /\ linkCall.op = "construct"
    /\ \E r \in 1..Len(records) : Len(records[r].linkedGroups) = 2
    /\ ~linked(Heap, linkCall.this)

\* the step is a call of the link-set operation op
IsCallOf(op) == linkCall'.op = op /\ linkCall'.count = linkCall.count + 1

\* C14: after a.addToLinkSet(b), b is in the link set of a and a in that of
\* b, and a group node that was in the link set of neither still is in the
\* link set of neither
C14_AddToLinkSetSymmetric ==
    [][IsCallOf("addToLinkSet")
       => LET a == linkCall'.this
              b == linkCall'.other
          IN /\ nodes'[b].sharedData = nodes'[a].sharedData
             /\ nodes'[a].sharedData = nodes'[b].sharedData
             /\ \A c \in GroupNodes :
                   (/\ nodes[c].sharedData # nodes[a].sharedData
                    /\ nodes[c].sharedData # nodes[b].sharedData)
                   => /\ nodes'[c].sharedData # nodes'[a].sharedData
                      /\ nodes'[c].sharedData # nodes'[b].sharedData]_vars

\* a.addToLinkSet(b) was called on two different nodes while a third group
\* node is in another link set
C14_Witness ==
    /\ linkCall.op = "addToLinkSet"
    /\ linkCall.this # linkCall.other
    /\ inLinkSetWith(Heap, linkCall.this, linkCall.other)
    /\ \E c \in GroupNodes : ~inLinkSetWith(Heap, linkCall.this, c)

\* C15: after a.addToLinkSet(b), b.linked() is false
C15_AddedNodeNotLinked ==
    linkCall.op = "addToLinkSet"
    => linkCall.other \notin Range(records[nodes[linkCall.other].sharedData].linkedGroups)

\* C16: every node in g.linkedGroups() is in the link set of g and is
\* linked, for every group node g
C16_LinkedGroupsAreMembers ==
    \A g \in GroupNodes :
        \A M \in Range(records[nodes[g].sharedData].linkedGroups) :
            /\ nodes[M].sharedData = nodes[g].sharedData
            /\ M \in Range(records[nodes[M].sharedData].linkedGroups)

MemberListOf(g) == records[nodes[g].sharedData].linkedGroups

\* C18: g.linked() is true exactly if g is an entry of the member list of
\* the record g references; g.link() on a node that is not linked leaves
\* that list as it was, followed by g, and g linked
C18_LinkAppends ==
    [][/\ \A g \in GroupNodes :
             linked(Heap, g) <=> (\E i \in 1..Len(MemberListOf(g)) : MemberListOf(g)[i] = g)
       /\ IsCallOf("link")
          => LET g == linkCall'.this
                 r == nodes[g].sharedData
             IN /\ nodes'[g].sharedData = r
                /\ records'[r].linkedGroups = Append(records[r].linkedGroups, g)
                /\ \E i \in 1..Len(records'[r].linkedGroups) : records'[r].linkedGroups[i] = g]_vars

\* g.link() was called while another node was linked in its link set, and g
\* is the last of the two members
C18_Witness ==
    /\ linkCall.op = "link"
    /\ Len(MemberListOf(linkCall.this)) = 2
    /\ MemberListOf(linkCall.this)[2] = linkCall.this
    /\ linked(Heap, linkCall.this)

\* C19: g.unlink() on a linked node takes g out of the member list of g's
\* record and leaves the other members in their order; g is not linked
\* afterwards, no record reference and no other record changes
C19_UnlinkRemovesOnlySelf ==
    [][IsCallOf("unlink")
       => LET g == linkCall'.this
              r == nodes[g].sharedData
              old == records[r].linkedGroups
          IN /\ \E i \in 1..Len(old) :
                   /\ old[i] = g
                   /\ records'[r].linkedGroups = SubSeq(old, 1, i - 1) \o SubSeq(old, i + 1, Len(old))
             /\ g \notin Range(records'[r].linkedGroups)
             /\ nodes' = nodes
             /\ Len(records') = Len(records)
             /\ \A q \in 1..Len(records) : q # r => records'[q] = records[q]
             /\ records'[r].persistentId = records[r].persistentId]_vars

\* g.unlink() was called on the first of two members, and the second is
\* still a member
C19_Witness ==
    /\ linkCall.op = "unlink"
    /\ ~linked(Heap, linkCall.this)
    /\ \E m \in Range(MemberListOf(linkCall.this)) : m > linkCall.this /\ linked(Heap, m)

\* C20: setPersistentId(id) on g sets g's own identity, and the identity of
\* g's record if that was unset; no step changes the identity of a record
\* once it is set, and no step but setPersistentId on g changes g's own
C20_PersistentIdFirstWriterWins ==
    [][/\ IsCallOf("setPersistentId")
          => LET g == linkCall'.this
                 r == nodes[g].sharedData
             IN /\ nodes'[g].persistentId = linkCall'.id
                /\ records[r].persistentId = NoId => records'[r].persistentId = linkCall'.id
       /\ \A r \in 1..Len(records) :
             (r <= Len(records') /\ records[r].persistentId # NoId)
             => records'[r].persistentId = records[r].persistentId
       /\ \A r \in 1..Len(records) :
             (r <= Len(records')
              /\ ~(IsCallOf("setPersistentId") /\ nodes[linkCall'.this].sharedData = r))
             => records'[r].persistentId = records[r].persistentId
       /\ \A g \in 1..Len(nodes) :
             (g <= Len(nodes') /\ ~(IsCallOf("setPersistentId") /\ linkCall'.this = g))
             => nodes'[g].persistentId = nodes[g].persistentId]_vars

\* a second member set another identity: it has its own, and the record
\* keeps the one set first
C20_Witness ==
    /\ linkCall.op = "setPersistentId"
    /\ nodes[linkCall.this].persistentId = linkCall.id
    /\ records[nodes[linkCall.this].sharedData].persistentId \notin {NoId, linkCall.id}
    /\ \E g \in GroupNodes :
          /\ g # linkCall.this
          /\ inLinkSetWith(Heap, g, linkCall.this)
          /\ nodes[g].persistentId = records[nodes[g].sharedData].persistentId

\* C21: the clone c that o.clone() or o.cloneRecursively() returns is a group
\* node that is not in the link set of o, nor o in that of c; c is not linked
\* and c.linkedGroups() is empty, whether or not o is linked
C21_CloneIsSingleton ==
    linkCall.op \in {"clone", "cloneRecursively"}
    => LET o == linkCall.this
           c == linkCall.other
       IN /\ nodes[c].kind = "Group"
          /\ nodes[c].group = nodes[o].group
          /\ ~inLinkSetWith(Heap, c, o)
          /\ ~inLinkSetWith(Heap, o, c)
          /\ ~linked(Heap, c)
          /\ linkedGroups(Heap, c) = <<>>
          /\ \A g \in GroupNodes : g # c => ~inLinkSetWith(Heap, g, c)

\* a linked member of a link set of two was cloned with its children
C21_Witness ==
    /\ linkCall.op = "cloneRecursively"
    /\ linked(Heap, linkCall.this)
    /\ Len(linkedGroups(Heap, linkCall.this)) = 2
    /\ Len(nodes[linkCall.other].children) = 1
    /\ ~inLinkSetWith(Heap, linkCall.other, linkCall.this)

\* C22: link() on a linked node, unlink() on a node that is not linked and
\* updateLinkedGroups on a node that is not linked fail an assertion: no
\* node, record, call or result changes in that step and no error value is
\* returned; and no call of link, unlink or updateLinkedGroups takes effect
\* or returns a result unless its precondition held when it was made
C22_PreconditionViolationsAreFaults ==
    [][/\ failedAssertion' # failedAssertion
          => /\ failedAssertion = NoFailedAssertion
             /\ nodes' = nodes /\ records' = records
             /\ updateCall' = updateCall /\ updateResult' = updateResult
             /\ updateResult.kind = "none"
             /\ LET g == failedAssertion'.this
                IN \/ /\ failedAssertion'.function = "link"
                      /\ failedAssertion'.expression = "!linked()"
                      /\ g \in Range(MemberListOf(g))
                   \/ /\ failedAssertion'.function \in {"unlink", "updateLinkedGroups"}
                      /\ failedAssertion'.expression = "linked()"
                      /\ g \notin Range(MemberListOf(g))
       /\ IsCallOf("link") => linkCall'.this \notin Range(MemberListOf(linkCall'.this))
       /\ IsCallOf("unlink") => linkCall'.this \in Range(MemberListOf(linkCall'.this))
       /\ (updateResult.kind = "none" /\ updateResult'.kind # "none")
          => updateCall'.this \in Range(MemberListOf(updateCall'.this))
       /\ failedAssertion # NoFailedAssertion => UNCHANGED vars]_vars

\* updateLinkedGroups was called on a node that is not linked while its link
\* set has a linked member, and nothing was returned
C22_Witness ==
    /\ failedAssertion.function = "updateLinkedGroups"
    /\ ~linked(Heap, failedAssertion.this)
    /\ linkedGroups(Heap, failedAssertion.this) # <<>>
    /\ updateResult.kind = "none"

(***************************************************************************)
(* Nested link sets and the walk of the cloner.                            *)
(***************************************************************************)
\* the group nodes above and below the caller that are in another link set
NestedOrEnclosingGroups ==
    {g \in Ancestors(Before, Caller) \cup Descendants(Before, Caller) :
        nodes[g].kind = "Group" /\ nodes[g].sharedData # nodes[Caller].sharedData}

\* C23: on success every old node is an entry of the caller's member list
\* other than the caller, the cloner ran for those entries only, no member of
\* the link set of a group above or below the caller is an old node, and the
\* only new nodes in a link set that existed are the replacements; if the
\* caller's list has no other entry the result is empty and nothing is built
C23_OwnLinkSetOnly ==
    /\ Succeeded
       => /\ \A i \in 1..Len(updateResult.value) :
                 OldNodes[i] \in Range(MemberListOf(Caller)) \ {Caller}
          /\ updateResult.cloned = SelectSeq(MemberListOf(Caller), LAMBDA g : g # Caller)
          /\ \A g \in NestedOrEnclosingGroups :
                \A M \in Range(MemberListOf(g)) : M \notin Range(OldNodes)
          /\ \A n \in (updateCall.nodeCount + 1)..Len(nodes) :
                (nodes[n].kind = "Group" /\ nodes[n].sharedData <= updateCall.recordCount)
                => /\ n \in Range(Replacements)
                   /\ nodes[n].sharedData = nodes[Caller].sharedData
    /\ (/\ Returned
        /\ Invertible(CallerTransformation)
        /\ Range(MemberListOf(Caller)) = {Caller})
       => /\ Succeeded
          /\ updateResult.value = <<>>
          /\ updateResult.visited = <<>>
          /\ Len(nodes) = updateCall.nodeCount

\* the caller is an outer group whose link set has no other member, while its
\* inner group has another linked member: the result is empty
C23_Witness ==
    /\ Succeeded
    /\ updateResult.value = <<>>
    /\ nodes[Caller].parent = NoId
    /\ \E g \in Range(nodes[Caller].children) :
          /\ nodes[g].kind = "Group"
          /\ Len(MemberListOf(g)) = 2
          /\ g \in Range(MemberListOf(g))

RECURSIVE PreOrderFrom(_, _)
\* the nodes under node from its child i on, in depth-first pre-order
PreOrderFrom(node, i) ==
    IF i > Len(nodes[node].children) THEN <<>>
    ELSE <<nodes[node].children[i]>> \o PreOrderFrom(nodes[node].children[i], 1)
                                     \o PreOrderFrom(node, i + 1)

PreOrder(node) == PreOrderFrom(node, 1)

\* the error of step (1) for source node s under the map m, or "" if the
\* node can be copied
TransformError(s, m) ==
    CASE nodes[s].kind = "World" -> WorldNodeError
      [] nodes[s].kind = "Layer" -> LayerNodeError
      [] nodes[s].kind = "Brush" /\ m.a = 0 -> BrushErrorMessage
      [] OTHER -> ""

\* the error of steps (1) and (2) for s under m: the copy is checked while
\* it has no children yet
StepError(s, m) ==
    IF TransformError(s, m) # "" THEN TransformError(s, m)
    ELSE IF Exceeds(updateCall.worldBounds, MovedBounds(s, m)) THEN WorldBoundsError
    ELSE ""

\* the walk for member M: the dispatches and bounds checks up to and
\* including the first step that fails, and the error of that step
WalkFor(M) ==
    LET order == PreOrder(Caller)
        m == ExpectedRelative(M)
        failing == {k \in 1..Len(order) : StepError(order[k], m) # ""}
        last == IF failing = {} THEN Len(order)
                ELSE CHOOSE k \in failing : \A j \in failing : k <= j
        visited == [k \in 1..last |-> <<M, order[k]>>]
    IN [visited |-> visited,
        checked |-> SelectSeq(visited, LAMBDA v : TransformError(v[2], m) = ""),
        error |-> IF failing = {} THEN "" ELSE StepError(order[last], m)]

RECURSIVE WalkFrom(_)
\* the walks for the other members from the i-th on, up to the first that fails
WalkFrom(i) ==
    IF i > Len(OtherMembers) THEN [visited |-> <<>>, checked |-> <<>>, error |-> ""]
    ELSE LET walk == WalkFor(OtherMembers[i])
         IN IF walk.error # "" THEN walk
            ELSE LET rest == WalkFrom(i + 1)
                 IN [visited |-> walk.visited \o rest.visited,
                     checked |-> walk.checked \o rest.checked,
                     error |-> rest.error]

\* C24: the cloner dispatches on the nodes under the caller in depth-first
\* pre-order, member after member; for each node the copy is made, then its
\* bounds are checked, then its children are visited; the walk ends with the
\* first step that fails, the error returned is the error of that step, and
\* nothing is returned with it
C24_FailFastPreOrder ==
    (Returned /\ Invertible(CallerTransformation))
    => /\ updateResult.visited = WalkFrom(1).visited
       /\ updateResult.checked = WalkFrom(1).checked
       /\ updateResult.error = WalkFrom(1).error
       /\ Failed <=> WalkFrom(1).error # ""
       /\ Failed => NoReplacement

\* the bounds check failed for a node two levels below the caller whose
\* transformation had succeeded, and the nodes after it were not visited
C24_Witness ==
    /\ Failed
    /\ updateResult.error = WorldBoundsError
    /\ Len(updateResult.visited) >= 2
    /\ Len(updateResult.visited) < Len(PreOrder(Caller))
    /\ updateResult.checked = updateResult.visited
    /\ nodes[updateResult.visited[Len(updateResult.visited)][2]].parent # Caller

\* the world and layer nodes under the caller
ContainersUnderCaller ==
    {d \in Descendants(Before, Caller) : nodes[d].kind \in {"World", "Layer"}}

StructuralErrorOf(node) ==
    IF nodes[node].kind = "World" THEN WorldNodeError ELSE LayerNodeError

FailedBrushTransforms ==
    {v \in 1..Len(updateResult.visited) :
        /\ nodes[updateResult.visited[v][2]].kind = "Brush"
        /\ ExpectedRelative(updateResult.visited[v][1]).a = 0}

\* C26: if the transformation of a brush under the caller fails, the call
\* fails with the text of the brush error and no replacement; that brush is
\* the last node dispatched on and no bounds check is made for its copy
C26_BrushErrorIsReturned ==
    (Returned /\ Invertible(CallerTransformation) /\ FailedBrushTransforms # {})
    => /\ NoReplacement
       /\ updateResult.error = BrushErrorMessage
       /\ FailedBrushTransforms = {Len(updateResult.visited)}
       /\ updateResult.visited[Len(updateResult.visited)] \notin Range(updateResult.checked)
       /\ Len(updateResult.checked) = Len(updateResult.visited) - 1

\* the brush of a brush entity failed to transform after the entity had been
\* copied and checked
C26_Witness ==
    /\ Failed
    /\ updateResult.error = BrushErrorMessage
    /\ Len(updateResult.visited) >= 2
    /\ LET last == updateResult.visited[Len(updateResult.visited)][2]
       IN /\ nodes[last].kind = "Brush"
          /\ nodes[nodes[last].parent].kind = "Entity"
          /\ <<updateResult.visited[Len(updateResult.visited)][1], nodes[last].parent>>
                 \in Range(updateResult.checked)

RECURSIVE SameShape(_, _)
\* the subtrees of r and s have the same shape: the same kind, and as many
\* children, whose subtrees have the same shape position by position
SameShape(r, s) ==
    /\ nodes[r].kind = nodes[s].kind
    /\ Len(nodes[r].children) = Len(nodes[s].children)
    /\ \A j \in 1..Len(nodes[r].children) :
          /\ nodes[nodes[r].children[j]].parent = r
          /\ SameShape(nodes[r].children[j], nodes[s].children[j])

\* C27: on success the subtree of every replacement has the shape of the
\* caller's subtree at every level, whatever the shape of the old member's
C27_ReplacementHasShapeOfCaller ==
    Succeeded
    => \A i \in 1..Len(updateResult.value) :
          /\ SameShape(Replacements[i], Caller)
          /\ Cardinality(Descendants(Heap, Replacements[i]))
                 = Cardinality(Descendants(Heap, Caller))
          /\ \A d \in Descendants(Heap, Replacements[i]) : d > updateCall.nodeCount

\* the old member's subtree differs in shape from the caller's at both
\* levels, and the replacement has the two-level shape of the caller's
C27_Witness ==
    /\ Succeeded
    /\ \E i \in 1..Len(updateResult.value) :
          LET M == OldNodes[i]
              R == Replacements[i]
          IN /\ ~SameShape(M, Caller)
             /\ Len(nodes[M].children) # Len(nodes[Caller].children)
             /\ SameShape(R, Caller)
             /\ \E c \in Range(nodes[R].children) :
                   /\ Len(nodes[c].children) = 2
                   /\ \E e \in Range(nodes[c].children) : nodes[e].children # <<>>

RECURSIVE GroupCopiesUnder(_, _, _)
\* the group nodes under the new node r with the node under s they were
\* copied from and the node at the same position under t, or NoId if t has
\* none: triples <<copy, source, node of the old member>>
GroupCopiesUnder(r, s, t) ==
    UNION {LET rc == nodes[r].children[j]
               sc == nodes[s].children[j]
               tc == IF t # NoId /\ j <= Len(nodes[t].children) THEN nodes[t].children[j]
                     ELSE NoId
           IN (IF nodes[rc].kind = "Group" THEN {<<rc, sc, tc>>} ELSE {})
              \cup GroupCopiesUnder(rc, sc, tc) :
           j \in 1..Len(nodes[r].children)}

GroupCopies ==
    UNION {GroupCopiesUnder(Replacements[i], Caller, OldNodes[i]) :
              i \in 1..Len(updateResult.value)}

\* C28: on success every group node under a replacement is a new node with a
\* new record of its own whose member list is empty: it is not linked, and
\* it is in the link set neither of the group it was copied from nor of the
\* group at its position under the old member
C28_NestedCopiesAreSingletons ==
    Succeeded
    => \A copy \in GroupCopies :
          LET rc == copy[1]
              sc == copy[2]
              tc == copy[3]
              r == nodes[rc].sharedData
          IN /\ rc > updateCall.nodeCount
             /\ r > updateCall.recordCount /\ r <= Len(records)
             /\ records[r] = SharedData
             /\ \A n \in 1..Len(nodes) : (n # rc /\ nodes[n].kind = "Group")
                                         => nodes[n].sharedData # r
             /\ \A q \in 1..Len(records) : rc \notin Range(records[q].linkedGroups)
             /\ nodes[sc].kind = "Group" /\ nodes[sc].sharedData # r
             /\ (tc # NoId /\ nodes[tc].kind = "Group") => nodes[tc].sharedData # r

\* the nested group the copy was made from and the nested group at its
\* position under the old member are linked members of one link set, and
\* the copy is in a link set of its own
C28_Witness ==
    /\ Succeeded
    /\ \E copy \in GroupCopies :
          /\ copy[3] # NoId
          /\ nodes[copy[3]].kind = "Group"
          /\ nodes[copy[2]].sharedData = nodes[copy[3]].sharedData
          /\ copy[2] \in Range(MemberListOf(copy[2]))
          /\ copy[3] \in Range(MemberListOf(copy[2]))
          /\ nodes[copy[1]].sharedData # nodes[copy[2]].sharedData
          /\ MemberListOf(copy[1]) = <<>>

RECURSIVE EntityCopiesUnder(_, _)
\* the entity nodes under the new node r with the entity node under s they
\* were copied from: pairs <<copy, source>>
EntityCopiesUnder(r, s) ==
    UNION {LET rc == nodes[r].children[j]
               sc == nodes[s].children[j]
           IN (IF nodes[rc].kind = "Entity" THEN {<<rc, sc>>} ELSE {})
              \cup EntityCopiesUnder(rc, sc) :
           j \in 1..Len(nodes[r].children)}

\* C29: in every replacement, an entity that has an entity at its position
\* under the old member, all groups above it having groups at theirs, is the
\* moved source entity merged with that entity; every other entity copy has
\* the properties and the preserved keys of its source; the preserver is run
\* once per replacement on the old member's children, and the call succeeds
\* whenever the cloner fails for no member
C29_PreserverPairsByPosition ==
    /\ Succeeded
       => /\ \A i \in 1..Len(updateResult.value) :
                LET M == OldNodes[i]
                    R == Replacements[i]
                    pairs == PairsUnder(R, Caller, M)
                IN /\ \A pair \in pairs :
                         ReplacementOf(pair)
                             = preserveEntityProperties(
                                   EntityTransform(SourceOf(pair), ExpectedRelative(M)),
                                   TargetOf(pair))
                   /\ \A copy \in EntityCopiesUnder(R, Caller) :
                         (\A pair \in pairs : pair[3] # copy[1])
                         => /\ nodes[copy[1]].entity.properties = nodes[copy[2]].entity.properties
                            /\ nodes[copy[1]].entity.preservedProperties
                                   = nodes[copy[2]].entity.preservedProperties
                   /\ updateResult.preserved[i] = <<M, nodes[M].children>>
          /\ Len(updateResult.preserved) = Len(updateResult.value)
    /\ (Returned /\ Invertible(CallerTransformation) /\ WalkFrom(1).error = "") => Succeeded
    /\ Failed => updateResult.error \in ErrorMessages

\* in one replacement an entity two levels down took the old member's
\* preserved value, an entity copy faces a brush at its position and another
\* has no position under the old member, and both kept the source's value
C29_Witness ==
    /\ Succeeded
    /\ \E i \in 1..Len(updateResult.value) :
          LET M == OldNodes[i]
              R == Replacements[i]
              pairs == PairsUnder(R, Caller, M)
              unpaired == {copy \in EntityCopiesUnder(R, Caller) :
                              \A pair \in pairs : pair[3] # copy[1]}
          IN /\ \E pair \in pairs :
                   /\ nodes[pair[3]].parent # R
                   /\ ValuesOf(SourceOf(pair), KeyK) = {"v1"}
                   /\ ValuesOf(ReplacementOf(pair), KeyK) = {"v0"}
             /\ \E copy \in unpaired :
                   /\ nodes[copy[1]].parent = R
                   /\ Len(nodes[M].children) < Len(nodes[R].children)
                   /\ ValuesOf(nodes[copy[1]].entity, KeyK) = {"v1"}
             /\ \E copy \in unpaired, t \in Descendants(Heap, M) :
                   /\ nodes[copy[1]].parent # R
                   /\ nodes[t].kind = "Brush"
                   /\ nodes[t].parent # M
                   /\ \E j \in 1..Len(nodes[nodes[t].parent].children) :
                         /\ nodes[nodes[t].parent].children[j] = t
                         /\ nodes[nodes[copy[1]].parent].children[j] = copy[1]

\* C30: the preserver is run for the members for which the cloner had
\* succeeded, in their order and on the member's own children: for every
\* replacement on success, for those before the failing member on failure;
\* and in each replacement a paired entity declares the keys the entity of
\* the member it replaces declares, with that entity's values for them
C30_PreserverUsesOwnMember ==
    /\ Returned
       => /\ Len(updateResult.preserved)
                 = IF Succeeded \/ updateResult.cloned = <<>> THEN Len(updateResult.cloned)
                   ELSE Len(updateResult.cloned) - 1
          /\ \A i \in 1..Len(updateResult.preserved) :
                /\ updateResult.preserved[i][1] = updateResult.cloned[i]
                /\ updateResult.preserved[i][2] = nodes[updateResult.cloned[i]].children
    /\ Succeeded
       => \A i \in 1..Len(updateResult.value) :
             \A pair \in PairsUnder(Replacements[i], Caller, OldNodes[i]) :
                 /\ nodes[pair[2]].parent = OldNodes[i]
                    \/ nodes[pair[2]].parent \in Descendants(Heap, OldNodes[i])
                 /\ ReplacementOf(pair).preservedProperties = TargetOf(pair).preservedProperties
                 /\ \A key \in DeclaredOnEitherSide(pair) :
                       ValuesOf(ReplacementOf(pair), key) = ValuesOf(TargetOf(pair), key)

\* two members were replaced whose entities differ in the value and in the
\* declaration of a preserved key, and each replacement has those of its own
\* member, one of them differing from the caller's
C30_Witness ==
    /\ Succeeded
    /\ Len(updateResult.value) = 2
    /\ \E p1 \in PairsUnder(Replacements[1], Caller, OldNodes[1]),
          p2 \in PairsUnder(Replacements[2], Caller, OldNodes[2]) :
          /\ p1[1] = p2[1]
          /\ ValuesOf(TargetOf(p1), KeyK) # ValuesOf(TargetOf(p2), KeyK)
          /\ ValuesOf(ReplacementOf(p1), KeyK) = ValuesOf(TargetOf(p1), KeyK)
          /\ ValuesOf(ReplacementOf(p2), KeyK) = ValuesOf(TargetOf(p2), KeyK)
          /\ ValuesOf(ReplacementOf(p1), KeyK) # ValuesOf(SourceOf(p1), KeyK)
          /\ ReplacementOf(p1).preservedProperties # ReplacementOf(p2).preservedProperties

(***************************************************************************)
(* The edit state of group nodes under open() and close().                 *)
(***************************************************************************)
\* the heap after the step
NextHeap == [nodes |-> nodes', records |-> records', cloned |-> <<>>, visited |-> <<>>,
             checked |-> <<>>, preserved |-> <<>>]

\* exactly one of the three queries of the edit state is true of g
ExactlyOneEditState(g) ==
    LET c == closed(Heap, g)
        o == opened(Heap, g)
        d == hasOpenedDescendant(Heap, g)
    IN (c \/ o \/ d) /\ ~(c /\ o) /\ ~(c /\ d) /\ ~(o /\ d)

\* C31: a group node is Closed when it has been constructed, and in every
\* reachable state exactly one of closed(), opened() and hasOpenedDescendant()
\* is true of each group node.
C31_ExactlyOneEditState ==
    /\ [](\A g \in GroupNodes : ExactlyOneEditState(g))
    /\ [][IsCallOf("construct") =>
            /\ linkCall'.this \notin GroupNodes
            /\ closed(NextHeap, linkCall'.this)
            /\ ~opened(NextHeap, linkCall'.this)
            /\ ~hasOpenedDescendant(NextHeap, linkCall'.this)]_vars

\* a group node was constructed while one group node is open and another has
\* an opened descendant
C31_Witness ==
    /\ linkCall.op = "construct"
    /\ closed(Heap, linkCall.this)
    /\ \E g \in GroupNodes : opened(Heap, g)
    /\ \E g \in GroupNodes : hasOpenedDescendant(Heap, g)

\* the strict ancestors of g that are group nodes
GroupAncestors(g) == {a \in Ancestors(Heap, g) : nodes[a].kind = "Group"}

\* the step changes the edit state of this to own and that of its group
\* ancestors to above, and nothing else of any node or record
EditStep(this, own, above) ==
    /\ Len(nodes') = Len(nodes)
    /\ records' = records
    /\ nodes'[this] = [nodes[this] EXCEPT !.editState = own]
    /\ \A n \in 1..Len(nodes) :
          n # this =>
             IF n \in GroupAncestors(this)
             THEN nodes'[n] = [nodes[n] EXCEPT !.editState = above]
             ELSE nodes'[n] = nodes[n]

\* the step is an assertion fault of function in a node whose edit state is
\* not required, and nothing else changes
EditFault(function, expression, required) ==
    /\ failedAssertion = NoFailedAssertion
    /\ failedAssertion'.expression = expression
    /\ failedAssertion'.this \in GroupNodes
    /\ nodes[failedAssertion'.this].editState # required
    /\ UNCHANGED <<nodes, records, updateCall, updateResult, linkCall>>

\* C32: a call of open() that takes effect is made on a Closed node, sets it
\* to Open and every strict ancestor that is a group node to DescendantOpen
\* whatever the state of the ancestor was, and changes nothing else: the edit
\* state of every other group node is as it was; open() on a node that is
\* not Closed fails the assertion and changes nothing
C32_OpenSetsAncestorsDescendantOpen ==
    [][/\ IsCallOf("open")
          => /\ nodes[linkCall'.this].editState = "Closed"
             /\ EditStep(linkCall'.this, "Open", "DescendantOpen")
       /\ (failedAssertion' # failedAssertion /\ failedAssertion'.function = "open")
          => EditFault("open", "m_editState == EditState::Closed", "Closed")
       /\ \A g \in GroupNodes :
             (EditIdle /\ nodes[g].editState # "Closed")
                => /\ ~ENABLED Open(g)
                   /\ ENABLED OpenAssertionFails(g)]_vars

\* open() was called on a node below an Open group node that has another
\* group beside it, and the Open node is DescendantOpen now
C32_Witness ==
    /\ linkCall.op = "open"
    /\ opened(Heap, linkCall.this)
    /\ linkCall.count >= 2
    /\ GroupAncestors(linkCall.this) # {}
    /\ \A a \in GroupAncestors(linkCall.this) : hasOpenedDescendant(Heap, a)
    /\ \E g \in GroupNodes \ ({linkCall.this} \cup GroupAncestors(linkCall.this)) :
          nodes[g].editState # "DescendantOpen"

\* C33: a call of close() that takes effect is made on an Open node, sets it
\* to Closed and every strict ancestor that is a group node to Closed, also
\* an ancestor that has another descendant in state Open, and changes nothing
\* else; close() on a node that is not Open fails the assertion and changes
\* nothing
C33_CloseSetsAncestorsClosed ==
    [][/\ IsCallOf("close")
          => /\ nodes[linkCall'.this].editState = "Open"
             /\ EditStep(linkCall'.this, "Closed", "Closed")
             /\ \A a \in GroupAncestors(linkCall'.this) : closed(NextHeap, a)
       /\ (failedAssertion' # failedAssertion /\ failedAssertion'.function = "close")
          => EditFault("close", "m_editState == EditState::Open", "Open")
       /\ \A g \in GroupNodes :
             (EditIdle /\ nodes[g].editState # "Open")
                => /\ ~ENABLED Close(g)
                   /\ ENABLED CloseAssertionFails(g)]_vars

\* close() was called on a node, and an ancestor of it that is Closed now
\* has another descendant that is still Open
C33_Witness ==
    /\ linkCall.op = "close"
    /\ closed(Heap, linkCall.this)
    /\ \E a \in GroupAncestors(linkCall.this) :
          /\ closed(Heap, a)
          /\ \E d \in Descendants(Heap, a) : d # linkCall.this /\ opened(Heap, d)

\* C38: in every state reached by calls of open() and close() whose
\* assertions hold, every strict ancestor group of a group node that is Open
\* is DescendantOpen
C38_OpenNodeHasDescendantOpenAncestors ==
    \A g \in GroupNodes :
        opened(Heap, g) => \A a \in GroupAncestors(g) : hasOpenedDescendant(Heap, a)

\* C39: in every state reached by calls of open() and close() whose
\* assertions hold, a group node that is DescendantOpen has a strict
\* descendant group node that is Open
C39_DescendantOpenHasOpenDescendant ==
    \A g \in GroupNodes :
        hasOpenedDescendant(Heap, g)
            => \E d \in Descendants(Heap, g) : nodes[d].kind = "Group" /\ opened(Heap, d)

\* after a call of close() that set an ancestor of it to Closed, a group
\* node is DescendantOpen and a group node below it is Open
C39_Witness ==
    /\ linkCall.op = "close"
    /\ \E g \in GroupNodes :
          /\ hasOpenedDescendant(Heap, g)
          /\ \E d \in Descendants(Heap, g) : opened(Heap, d)
          /\ \E a \in GroupAncestors(g) : closed(Heap, a) /\ a \in GroupAncestors(linkCall.this)

(***************************************************************************)
(* Termination of updateLinkedGroups.                                      *)
(***************************************************************************)
\* a call was entered and has not returned
InCall == updateResult.kind = "running"

\* the walks of the call that returned: the cloner was started once for each
\* other member at most, each node it dispatched on is a strict descendant of
\* the caller, and no node was dispatched on twice for one member
BoundedWalk ==
    /\ \A i, j \in 1..Len(updateResult.cloned) :
          i # j => updateResult.cloned[i] # updateResult.cloned[j]
    /\ Range(updateResult.cloned) \subseteq Range(OtherMembers)
    /\ \A i \in 1..Len(updateResult.visited) :
          /\ updateResult.visited[i][1] \in Range(updateResult.cloned)
          /\ updateResult.visited[i][2] \in Descendants(Before, Caller)
    /\ \A i, j \in 1..Len(updateResult.visited) :
          i # j => updateResult.visited[i] # updateResult.visited[j]
    /\ Len(updateResult.visited)
          <= Len(OtherMembers) * Cardinality(Descendants(Before, Caller))

\* C34: a call of updateLinkedGroups that was entered returns, with a result
\* or with one of the error messages, and by then the cloner has dispatched
\* on each strict descendant of the caller at most once for each other
\* member and on no other node
C34_UpdateLinkedGroupsTerminates ==
    /\ InCall ~> (Succeeded \/ Failed)
    /\ []((Succeeded \/ Failed) => BoundedWalk)
    /\ [](Failed => updateResult.error \in ErrorMessages)

\* a call returned after the cloner had dispatched on every strict descendant
\* of the caller for each of two or more levels of the tree
C34_Witness ==
    /\ Succeeded
    /\ OtherMembers # <<>>
    /\ Len(updateResult.visited) = Len(OtherMembers) * Cardinality(Descendants(Before, Caller))
    /\ \E i \in 1..Len(updateResult.visited) :
          nodes[updateResult.visited[i][2]].parent # Caller

(***************************************************************************)
(* What updateLinkedGroups leaves for the caller to splice.                *)
(***************************************************************************)
\* C35: when updateLinkedGroups returns its pairs, no replacement is linked
\* and none is an entry of the member list of any record; the member list of
\* every record that existed has the entries it had before the call, and the
\* records made during the call have no entries
C35_ReplacementsAreNotLinked ==
    [][(updateResult.kind = "none" /\ updateResult'.kind = "success")
        => /\ \A i \in 1..Len(updateResult'.value) :
                 LET R == updateResult'.value[i][2]
                 IN /\ ~linked(NextHeap, R)
                    /\ \A r \in 1..Len(records') : R \notin Range(records'[r].linkedGroups)
           /\ Len(records') >= Len(records)
           /\ \A r \in 1..Len(records) : records'[r].linkedGroups = records[r].linkedGroups
           /\ \A r \in (Len(records) + 1)..Len(records') : records'[r].linkedGroups = <<>>
           /\ linkedGroups(NextHeap, updateCall'.this) = linkedGroups(Heap, updateCall'.this)]_vars

\* two replacements were returned to a caller whose member list has three
\* entries, and they reference the record of the caller
C35_Witness ==
    /\ Succeeded
    /\ Len(updateResult.value) = 2
    /\ Len(linkedGroups(Heap, Caller)) = 3
    /\ \A i \in 1..Len(Replacements) :
          /\ inLinkSetWith(Heap, Caller, Replacements[i])
          /\ ~linked(Heap, Replacements[i])
          /\ linked(Heap, OldNodes[i])

(***************************************************************************)
(* Round trips and the shape of the member lists.                          *)
(***************************************************************************)
\* C36: after any calls that respect the preconditions, unlink() on the node
\* that link() was just called on is permitted and gives back the nodes and
\* records as they were before the link(), so that every member list and
\* linked() of every node are as before; and the step of such an unlink()
\* leaves a heap from which link() gives the heap the unlink() was called in
C36_LinkUnlinkRoundTrip ==
    [][/\ IsCallOf("link")
          => LET this == linkCall'.this
                 undone == unlink(NextHeap, this)
             IN /\ unlinkAssertion(NextHeap, this)
                /\ linked(NextHeap, this)
                /\ undone.nodes = nodes
                /\ undone.records = records
                /\ \A g \in GroupNodes : linked(undone, g) = linked(Heap, g)
       /\ (IsCallOf("unlink") /\ linkCall.op = "link" /\ linkCall.this = linkCall'.this)
          => /\ ~linked(NextHeap, linkCall'.this)
             /\ link(NextHeap, linkCall'.this).records = records
             /\ nodes' = nodes]_vars

\* link() was called on a node whose record has another member, after the
\* node had been put in that link set
C36_Witness ==
    /\ linkCall.op = "link"
    /\ linkCall.count >= 2
    /\ linked(Heap, linkCall.this)
    /\ Len(linkedGroups(Heap, linkCall.this)) >= 2
    /\ unlink(Heap, linkCall.this).records # records

\* C37: in every state reached by calls of link, unlink, addToLinkSet,
\* setPersistentId and updateLinkedGroups whose preconditions hold, no group
\* node is an entry of the member list of a record twice
C37_NoDuplicateMembers ==
    \A r \in 1..Len(records) :
        \A i, j \in 1..Len(records[r].linkedGroups) :
            i # j => records[r].linkedGroups[i] # records[r].linkedGroups[j]

\* a node was linked while it was still an entry of the member list of the
\* record it referenced before: it is an entry of two lists, once in each
C37_Witness ==
    /\ linkCall.op = "link"
    /\ \E r1, r2 \in 1..Len(records) :
          /\ r1 # r2
          /\ linkCall.this \in Range(records[r1].linkedGroups)
          /\ linkCall.this \in Range(records[r2].linkedGroups)
          /\ Len(records[r2].linkedGroups) >= 2

(***************************************************************************)
(* Propagation after the replacements were spliced in.                     *)
(***************************************************************************)
\* Catch::UnorderedEquals, by which the tests compare the properties and the
\* preserved keys of entities: v is a permutation of w
UnorderedEquals(v, w) ==
    /\ Len(v) = Len(w)
    /\ \A x \in Range(v) \cup Range(w) :
          Cardinality({i \in 1..Len(v) : v[i] = x}) = Cardinality({i \in 1..Len(w) : w[i] = x})

RECURSIVE SameValue(_, _)
\* the subtrees of r and s hold the same values: the kind, Group, entity
\* (its origin, its properties and its preserved keys, each in any order)
\* and brush of r are those of s, and so for their children in order
SameValue(r, s) ==
    /\ nodes[r].kind = nodes[s].kind
    /\ nodes[r].group = nodes[s].group
    /\ nodes[r].entity.origin = nodes[s].entity.origin
    /\ UnorderedEquals(nodes[r].entity.properties, nodes[s].entity.properties)
    /\ UnorderedEquals(nodes[r].entity.preservedProperties, nodes[s].entity.preservedProperties)
    /\ nodes[r].brush = nodes[s].brush
    /\ Len(nodes[r].children) = Len(nodes[s].children)
    /\ \A i \in 1..Len(nodes[r].children) :
          SameValue(nodes[r].children[i], nodes[s].children[i])

\* the last thing done to the link set was that the caller of the call that
\* returned spliced in the replacements of its previous call
SecondCall == Succeeded /\ linkCall.op = "splice" /\ linkCall.this = Caller

RECURSIVE SameValueInOrder(_, _)
\* the subtrees of r and s hold equal values: as SameValue, with the
\* properties and the preserved keys of each entity in the same order also
SameValueInOrder(r, s) ==
    /\ nodes[r].kind = nodes[s].kind
    /\ nodes[r].group = nodes[s].group
    /\ nodes[r].entity = nodes[s].entity
    /\ nodes[r].brush = nodes[s].brush
    /\ Len(nodes[r].children) = Len(nodes[s].children)
    /\ \A i \in 1..Len(nodes[r].children) :
          SameValueInOrder(nodes[r].children[i], nodes[s].children[i])

\* C40: a call of updateLinkedGroups on N that succeeds after the
\* replacements of a call on N were spliced in, N being as it was, returns
\* for each member a replacement with the Group value, the children, the
\* entity properties and the preserved keys of that member
C40_PropagationIsIdempotent ==
    SecondCall
    => /\ Len(updateResult.value) = Len(linkedGroups(Before, Caller)) - 1
       /\ \A i \in 1..Len(updateResult.value) :
             SameValueInOrder(Replacements[i], OldNodes[i])

\* C40 as amended: the replacements of the second call have the Group value,
\* the children, and for each entity the origin, the properties and the
\* preserved keys of the members they replace, where the properties and the
\* preserved keys of an entity are compared without regard to their order
C40_IdempotentUpToPropertyOrder ==
    SecondCall
    => /\ Len(updateResult.value) = Len(linkedGroups(Before, Caller)) - 1
       /\ \A i \in 1..Len(updateResult.value) :
             SameValue(Replacements[i], OldNodes[i])

\* the second call returned a replacement whose entity has the properties of
\* the member's entity in another order, and another replacement that
\* differs from the caller in its transformation, in the origin and a
\* property value of its entity and in the preserved keys
C40_Witness ==
    /\ SecondCall
    /\ \E i \in 1..Len(updateResult.value) :
          /\ SameValue(Replacements[i], OldNodes[i])
          /\ ~SameValueInOrder(Replacements[i], OldNodes[i])
    /\ \E i \in 1..Len(updateResult.value) :
          /\ nodes[Replacements[i]].group.transformation # CallerTransformation
          /\ \E c \in 1..Len(nodes[Caller].children) :
                LET source == nodes[nodes[Caller].children[c]]
                    copy == nodes[nodes[Replacements[i]].children[c]]
                IN /\ source.kind = "Entity"
                   /\ copy.entity.preservedProperties # source.entity.preservedProperties
                   /\ ~UnorderedEquals(copy.entity.properties, source.entity.properties)
                   /\ copy.entity.origin # source.entity.origin

====
